---------------------------- MODULE Spec2Model ----------------------------
(* Model of the replica-synchronisation engine (class SyncManager in        *)
(* src/lib/auth-manager.ts), of the remote object it writes through         *)
(* GitHubClient (src/lib/github-client.ts) and of the UI mutations of the   *)
(* local store (src/app/page.tsx).                                          *)
(*                                                                          *)
(* Time is an integer clock `now`; new Date(x).getTime() is the identity on *)
(* it.  The two durations of the code (the one-hour conflict window and the *)
(* seven-day tombstone retention) are scaled to a few clock units each.     *)
EXTENDS Integers, Sequences, FiniteSets, TLC

(***************************************************************************)
(* Bounds of the model                                                     *)
(***************************************************************************)
\* the clock runs from 0 to MaxTime
MaxTime == 2
\* invocations of sync() explored per replica
MaxSyncs == 2
\* UI mutations explored in all
MaxMutations == 2

(***************************************************************************)
(* Program constants                                                       *)
(***************************************************************************)
\* hasConflict: timeDiff < 60 * 60 * 1000 (scaled to clock units)
ConflictWindow == 1
\* cleanupDeletedIds / wasRecentlyDeleted: 7 * 24 * 60 * 60 * 1000 (scaled)
RetentionWindow == 2
\* SyncConfig.retryAttempts
retryAttempts == 3

\* ids are 1..MaxId
MaxId == 2
Ids == 1..MaxId
Times == 0..MaxTime
NoTime == -1

(***************************************************************************)
(* Records (HabitItem), local todo entries, snapshots (HabitsData)         *)
(***************************************************************************)
Habit(i, t, c, h, ca, ua) ==
  [id |-> i, text |-> t, completed |-> c, hidden |-> h, createdAt |-> ca, updatedAt |-> ua]

\* the settings object getLocalData builds and getDefaultHabitsData returns
DefaultSettings == [theme |-> "light", autoSync |-> TRUE, encryptionEnabled |-> TRUE]

HabitsData(ver, ls, lrd, hs, st) ==
  [version |-> ver, lastSync |-> ls, lastResetDate |-> lrd, habits |-> hs, settings |-> st]

\* getDefaultHabitsData(): an empty snapshot stamped with the current time
getDefaultHabitsData(t) == HabitsData("1.0", t, "today", <<>>, DefaultSettings)

\* h.updatedAt || h.createdAt, through new Date(..).getTime()
EffTime(h) == IF h.updatedAt = NoTime THEN h.createdAt ELSE h.updatedAt

Abs(x) == IF x < 0 THEN 0 - x ELSE x

(***************************************************************************)
(* new Map(habits.map(h => [h.id, h])): keys in order of first insertion,  *)
(* the value of a key is its last occurrence                               *)
(***************************************************************************)
IdsOf(hs) == {hs[i].id : i \in DOMAIN hs}

MapGet(hs, id) ==
  hs[CHOOSE i \in DOMAIN hs : hs[i].id = id /\ \A j \in DOMAIN hs : hs[j].id = id => j <= i]

RECURSIVE MapKeys(_, _)
MapKeys(hs, seen) ==
  IF hs = <<>> THEN <<>>
  ELSE IF Head(hs).id \in seen THEN MapKeys(Tail(hs), seen)
       ELSE <<Head(hs).id>> \o MapKeys(Tail(hs), seen \cup {Head(hs).id})

RECURSIVE SeqMinus(_, _)
SeqMinus(ks, drop) ==
  IF ks = <<>> THEN <<>>
  ELSE IF Head(ks) \in drop THEN SeqMinus(Tail(ks), drop)
       ELSE <<Head(ks)>> \o SeqMinus(Tail(ks), drop)

\* new Set([...localHabits.keys(), ...remoteHabits.keys()]) in iteration order
AllIds(lh, rh) == MapKeys(lh, {}) \o SeqMinus(MapKeys(rh, {}), IdsOf(lh))

(***************************************************************************)
(* Conflict detector                                                       *)
(***************************************************************************)
\* a detector that compares the completed flags only
hasConflict_FlagsOnly(l, r) ==
  IF l.completed # r.completed
  THEN Abs(EffTime(l) - EffTime(r)) < ConflictWindow
  ELSE FALSE

\* a detector whose window includes its end point
hasConflict_Inclusive(l, r) ==
  IF l.text # r.text THEN TRUE
  ELSE IF l.completed # r.completed
       THEN Abs(EffTime(l) - EffTime(r)) <= ConflictWindow
       ELSE FALSE

\* a detector that takes the difference of the two times without Math.abs
hasConflict_Signed(l, r) ==
  IF l.text # r.text THEN TRUE
  ELSE IF l.completed # r.completed
       THEN EffTime(l) - EffTime(r) < ConflictWindow
       ELSE FALSE

hasConflict(l, r) ==
  IF l.text # r.text THEN TRUE
  ELSE IF l.completed # r.completed
       THEN Abs(EffTime(l) - EffTime(r)) < ConflictWindow
       ELSE FALSE

ConflictInfo(l, r) ==
  [id |-> l.id, type |-> "modify", local |-> l, remote |-> r,
   timestamp |-> [local |-> EffTime(l), remote |-> EffTime(r)]]

RECURSIVE DetectLoop(_, _, _)
DetectLoop(ids, lh, rh) ==
  IF ids = <<>> THEN <<>>
  ELSE LET id == Head(ids)
           rest == DetectLoop(Tail(ids), lh, rh)
       IN IF id \in IdsOf(lh) /\ id \in IdsOf(rh) /\ hasConflict(MapGet(lh, id), MapGet(rh, id))
          THEN <<ConflictInfo(MapGet(lh, id), MapGet(rh, id))>> \o rest
          ELSE rest

detectConflicts(local, remote) ==
  DetectLoop(AllIds(local.habits, remote.habits), local.habits, remote.habits)

(***************************************************************************)
(* Tombstone tracker: the 'deleted_habits' list of {id, deletedAt}         *)
(***************************************************************************)
TombIds(ds) == {ds[i].id : i \in DOMAIN ds}

getDeletedHabitsIds(ds) == TombIds(ds)

\* data.find(item => item.id === id): the first entry for id
TombFind(ds, id) ==
  ds[CHOOSE i \in DOMAIN ds : ds[i].id = id /\ \A j \in DOMAIN ds : ds[j].id = id => i <= j]

wasRecentlyDeleted(ds, id, t) ==
  IF id \notin TombIds(ds) THEN FALSE
  ELSE TombFind(ds, id).deletedAt > t - RetentionWindow

RECURSIVE FilterValid(_, _)
FilterValid(ds, t) ==
  IF ds = <<>> THEN <<>>
  ELSE IF Head(ds).deletedAt > t - RetentionWindow
       THEN <<Head(ds)>> \o FilterValid(Tail(ds), t)
       ELSE FilterValid(Tail(ds), t)

\* a sweep whose comparison is turned round: it keeps the expired entries
cleanupDeletedIds_KeepsExpired(ds, t) ==
  SelectSeq(ds, LAMBDA d : ~(d.deletedAt > t - RetentionWindow))

cleanupDeletedIds(ds, t) == FilterValid(ds, t)

\* a marker that appends without looking for an existing entry
markHabitAsDeleted_Always(ds, id, t) == Append(ds, [id |-> id, deletedAt |-> t])

markHabitAsDeleted(ds, id, t) ==
  IF id \in TombIds(ds) THEN ds ELSE Append(ds, [id |-> id, deletedAt |-> t])

(***************************************************************************)
(* Reconciliation engine                                                   *)
(***************************************************************************)
\* a loop body that takes a remote-only record not newer than the local
\* lastSync for one deleted locally
MergeEmit_DropStaleRemote(id, local, remote, ds, t) ==
  LET inL == id \in IdsOf(local.habits)
      inR == id \in IdsOf(remote.habits)
  IN IF id \in getDeletedHabitsIds(ds) THEN <<>>
     ELSE IF inL /\ inR
          THEN IF EffTime(MapGet(local.habits, id)) >= EffTime(MapGet(remote.habits, id))
               THEN <<MapGet(local.habits, id)>>
               ELSE <<MapGet(remote.habits, id)>>
     ELSE IF inL THEN <<MapGet(local.habits, id)>>
     ELSE IF inR /\ EffTime(MapGet(remote.habits, id)) > local.lastSync
          THEN <<MapGet(remote.habits, id)>>
     ELSE <<>>

\* a loop body without the skip of deleted ids: tombstones are consulted for
\* remote-only records alone
MergeEmit_NoSkip(id, local, remote, ds, t) ==
  LET inL == id \in IdsOf(local.habits)
      inR == id \in IdsOf(remote.habits)
  IN IF inL /\ inR
     THEN IF EffTime(MapGet(local.habits, id)) >= EffTime(MapGet(remote.habits, id))
          THEN <<MapGet(local.habits, id)>>
          ELSE <<MapGet(remote.habits, id)>>
     ELSE IF inL THEN <<MapGet(local.habits, id)>>
     ELSE IF inR
          THEN IF EffTime(MapGet(remote.habits, id)) > local.lastSync
               THEN <<MapGet(remote.habits, id)>>
               ELSE IF ~wasRecentlyDeleted(ds, id, t)
                    THEN <<MapGet(remote.habits, id)>>
                    ELSE <<>>
     ELSE <<>>

\* a loop body that takes the remote record when the two times are equal
MergeEmit_RemoteOnTie(id, local, remote, ds, t) ==
  LET inL == id \in IdsOf(local.habits)
      inR == id \in IdsOf(remote.habits)
  IN IF id \in getDeletedHabitsIds(ds) THEN <<>>
     ELSE IF inL /\ inR
          THEN IF EffTime(MapGet(local.habits, id)) > EffTime(MapGet(remote.habits, id))
               THEN <<MapGet(local.habits, id)>>
               ELSE <<MapGet(remote.habits, id)>>
     ELSE IF inL THEN <<MapGet(local.habits, id)>>
     ELSE IF inR
          THEN IF EffTime(MapGet(remote.habits, id)) > local.lastSync
               THEN <<MapGet(remote.habits, id)>>
               ELSE IF ~wasRecentlyDeleted(ds, id, t)
                    THEN <<MapGet(remote.habits, id)>>
                    ELSE <<>>
     ELSE <<>>

\* a loop body that pushes the records of both sides
MergeEmit_PushBoth(id, local, remote, ds, t) ==
  LET inL == id \in IdsOf(local.habits)
      inR == id \in IdsOf(remote.habits)
  IN IF id \in getDeletedHabitsIds(ds) THEN <<>>
     ELSE IF inL /\ inR
          THEN <<MapGet(local.habits, id), MapGet(remote.habits, id)>>
     ELSE IF inL THEN <<MapGet(local.habits, id)>>
     ELSE IF inR
          THEN IF EffTime(MapGet(remote.habits, id)) > local.lastSync
               THEN <<MapGet(remote.habits, id)>>
               ELSE IF ~wasRecentlyDeleted(ds, id, t)
                    THEN <<MapGet(remote.habits, id)>>
                    ELSE <<>>
     ELSE <<>>

\* one pass of the loop body of mergeData for one id: what it pushes
MergeEmit(id, local, remote, ds, t) ==
  LET inL == id \in IdsOf(local.habits)
      inR == id \in IdsOf(remote.habits)
  IN IF id \in getDeletedHabitsIds(ds) THEN <<>>
     ELSE IF inL /\ inR
          THEN IF EffTime(MapGet(local.habits, id)) >= EffTime(MapGet(remote.habits, id))
               THEN <<MapGet(local.habits, id)>>
               ELSE <<MapGet(remote.habits, id)>>
     ELSE IF inL THEN <<MapGet(local.habits, id)>>
     ELSE IF inR
          THEN IF EffTime(MapGet(remote.habits, id)) > local.lastSync
               THEN <<MapGet(remote.habits, id)>>
               ELSE IF ~wasRecentlyDeleted(ds, id, t)
                    THEN <<MapGet(remote.habits, id)>>
                    ELSE <<>>
     ELSE <<>>

RECURSIVE MergeLoop(_, _, _, _, _)
MergeLoop(ids, local, remote, ds, t) ==
  IF ids = <<>> THEN <<>>
  ELSE MergeEmit(Head(ids), local, remote, ds, t) \o MergeLoop(Tail(ids), local, remote, ds, t)

\* Array.prototype.sort with (a, b) => a.createdAt - b.createdAt: a stable sort
RECURSIVE InsertByCreatedAt(_, _)
InsertByCreatedAt(sorted, h) ==
  IF sorted = <<>> THEN <<h>>
  ELSE IF Head(sorted).createdAt <= h.createdAt
       THEN <<Head(sorted)>> \o InsertByCreatedAt(Tail(sorted), h)
       ELSE <<h>> \o sorted

RECURSIVE SortByCreatedAt(_)
SortByCreatedAt(hs) ==
  IF hs = <<>> THEN <<>>
  ELSE InsertByCreatedAt(SortByCreatedAt(SubSeq(hs, 1, Len(hs) - 1)), hs[Len(hs)])

\* a mergeData that returns the records in the order the loop emitted them
mergeData_NoSort(local, remote, ds, t) ==
  LET newerMeta == IF local.lastSync >= remote.lastSync THEN local ELSE remote
  IN [newerMeta EXCEPT
        !.habits = MergeLoop(AllIds(local.habits, remote.habits), local, remote, ds, t),
        !.lastSync = t]

\* mergeData(local, remote) with the tombstone list ds read at time t
mergeData(local, remote, ds, t) ==
  LET newerMeta == IF local.lastSync >= remote.lastSync THEN local ELSE remote
  IN [newerMeta EXCEPT
        !.habits = SortByCreatedAt(
                     MergeLoop(AllIds(local.habits, remote.habits), local, remote, ds, t)),
        !.lastSync = t]


(***************************************************************************)
(* State                                                                   *)
(***************************************************************************)
VARIABLES
  now,        \* the wall clock (Date.now())
  remote,     \* the remote object data.json: [exists, data]
  todos,      \* per replica: localStorage 'dailyTodos'
  deleted,    \* per replica: localStorage 'deleted_habits'
  syncState,  \* per replica: SyncManager.syncState
  cyc,        \* per replica and slot: one invocation of sync() and where it is suspended
  nSync,      \* per replica: invocations of sync() so far (bounds the exploration)
  nMut,       \* UI mutations so far (bounds the exploration)
  nextId,     \* the id the next addTodo draws (Date.now().toString(): never reused)
  stage,      \* observer: progress of the delete-then-sync scenario of replica "A"
  delId,      \* observer: the id replica "A" deleted first (0: none yet)
  mLocal,     \* SpecMerge: the local snapshot handed to detectConflicts / mergeData
  mRemote,    \* SpecMerge: the remote snapshot handed to them
  mOut,       \* SpecMerge: what the last call returned
  isOnline,   \* per replica: SyncManager.isOnline
  config,     \* per replica: SyncManager.config (the autoSync switch)
  lastEvent,  \* observer, per replica: the last network event or lastEvent trigger
  listeners,  \* SyncManager.listeners, in subscription order
  seen,       \* observer, per listener: its last invocation (state, number of the update, threw)
  nPub,       \* observer: state updates published to listeners so far (bounds the exploration)
  codec,      \* SpecCodec: a text, the Base64 made of it and the text decoded from that
  authed      \* per replica: authManager.isAuthenticated()

vars == <<now, remote, todos, deleted, syncState, cyc, nSync, nMut, nextId, stage, delId,
          mLocal, mRemote, mOut, isOnline, config, lastEvent, listeners, seen, nPub,
          codec, authed>>
mvars == <<mLocal, mRemote, mOut>>
nvars == <<isOnline, config, lastEvent>>
lvars == <<listeners, seen, nPub>>

\* the functions that subscribe as listeners
MaxListeners == 3
ListenerIds == 1..MaxListeners
\* state updates explored with listeners subscribed
MaxPubs == 2

\* SyncManager.config as constructed
DefaultConfig == [autoSync |-> TRUE]

Replicas == {"A", "B"}
\* concurrent invocations of sync() one process can have suspended at a time
MaxCycles == 2
Slots == 1..MaxCycles

EmptyData == getDefaultHabitsData(0)
NoFile == [exists |-> FALSE, data |-> EmptyData]
File(d) == [exists |-> TRUE, data |-> d]

\* a todo of the local store: a HabitItem without updatedAt
Todo(h) ==
  [id |-> h.id, text |-> h.text, completed |-> h.completed, hidden |-> h.hidden,
   createdAt |-> h.createdAt]

\* getLocalData: every todo becomes a HabitItem with updatedAt = createdAt
getLocalData(ts, t) ==
  HabitsData("1.0", t, "today",
             [i \in DOMAIN ts |->
                Habit(ts[i].id, ts[i].text, ts[i].completed, ts[i].hidden,
                      ts[i].createdAt, ts[i].createdAt)],
             DefaultSettings)

\* saveLocalData: what localStorage 'dailyTodos' holds afterwards
saveLocalData(data) == [i \in DOMAIN data.habits |-> Todo(data.habits[i])]

\* GitHubClient.readHabitsData: the parsed file, or the default data on 404
readHabitsData(rem, t) == IF rem.exists THEN rem.data ELSE getDefaultHabitsData(t)

\* GitHubClient.getFileContent(..).sha as saveRemoteData uses it: the blob
\* sha identifies the content; no sha when the file does not exist
getFileSha(rem) == rem

\* the contents API on PUT: a create needs no sha, an update needs the
\* sha of the current blob ("sha wasn't supplied" / 409 otherwise)
PutAccepted(rem, sha) == sha = rem

\* SpecMerge: no call made since the inputs, the clock or the tombstones changed
NoOut == [kind |-> "none", data |-> EmptyData, conflicts |-> <<>>, tombs |-> <<>>]

InitSyncState ==
  [status |-> "idle", lastSyncTime |-> NoTime, lastError |-> "null",
   pendingChanges |-> FALSE, conflictCount |-> 0]

\* no text handed to a codec
NoCodec == [which |-> "none", stage |-> "none", text |-> <<>>, base64 |-> <<>>, decoded |-> <<>>]

\* a listener that has not been invoked yet
NotInvoked == [state |-> InitSyncState, seq |-> 0, threw |-> FALSE]

\* updateSyncState for the fields the cycle sets
IdleCycle ==
  [pc |-> "idle", localData |-> EmptyData, merged |-> EmptyData, sha |-> NoFile,
   outcome |-> "none", errType |-> "none", conflicts |-> <<>>,
   resolutions |-> <<>>,    \* resolveConflicts: its second argument
   attempts |-> 0,          \* observer: remote writes attempted by this invocation
   fetched |-> NoFile,      \* observer: the remote object this invocation fetched
   mutated |-> {},          \* observer: ids the UI changed since this invocation read the store
   wroteLocal |-> FALSE,    \* observer: this invocation wrote the local store
   localWritten |-> <<>>,   \* observer: what it left in the local store
   remoteWritten |-> EmptyData, \* observer: what it left in the remote object
   stale |-> FALSE,         \* observer: another replica changed the remote object since the fetch
   startStage |-> 0]        \* observer: stage when this invocation started

SlotFree(r, c) == cyc[r][c].pc \in {"idle", "done"}
InFlight(r, c) == ~SlotFree(r, c)

Habit1(txt, done) == Habit(1, txt, done, FALSE, 0, 0)

Init ==
  /\ now = 0
  /\ \E txt \in {"a", "b"} :
       remote = File(HabitsData("1.0", 0, "today", <<Habit1(txt, FALSE)>>, DefaultSettings))
  /\ todos = [r \in Replicas |-> <<Todo(Habit1("a", FALSE))>>]
  /\ deleted = [r \in Replicas |-> <<>>]
  /\ syncState = [r \in Replicas |-> InitSyncState]
  /\ cyc = [r \in Replicas |-> [c \in Slots |-> IdleCycle]]
  /\ nSync = [r \in Replicas |-> 0]
  /\ nMut = 0
  /\ nextId = 2
  /\ stage = 0
  /\ delId = 0
  /\ mLocal = EmptyData
  /\ mRemote = EmptyData
  /\ mOut = NoOut
  /\ isOnline = [r \in Replicas |-> TRUE]
  /\ config = [r \in Replicas |-> DefaultConfig]
  /\ lastEvent = [r \in Replicas |-> "none"]
  /\ listeners = <<>>
  /\ seen = [l \in ListenerIds |-> NotInvoked]
  /\ nPub = 0
  /\ authed = [r \in Replicas |-> TRUE]
  /\ codec = NoCodec


(***************************************************************************)
(* The clock                                                               *)
(***************************************************************************)
Tick ==
  /\ now < MaxTime
  /\ now' = now + 1
  /\ UNCHANGED <<remote, todos, deleted, syncState, cyc, nSync, nMut, nextId, stage, delId>>
  /\ UNCHANGED mvars
  /\ UNCHANGED lvars
  /\ UNCHANGED codec
  /\ UNCHANGED authed
  /\ UNCHANGED nvars

(***************************************************************************)
(* UI mutations of the local store (page.tsx), and the public call that    *)
(* records a deletion (SyncManager.markHabitAsDeleted)                     *)
(***************************************************************************)
\* observer: every invocation of r that has read the store and not yet written it back
NoteMutation(r, id) ==
  [cyc EXCEPT ![r] =
     [c \in Slots |-> IF cyc[r][c].pc = "fetch"
                      THEN [cyc[r][c] EXCEPT !.mutated = @ \cup {id}]
                      ELSE cyc[r][c]]]

RECURSIVE RemoveId(_, _)
RemoveId(ts, id) ==
  IF ts = <<>> THEN <<>>
  ELSE IF Head(ts).id = id THEN RemoveId(Tail(ts), id)
       ELSE <<Head(ts)>> \o RemoveId(Tail(ts), id)

addTodo(r, txt) ==
  /\ nMut < MaxMutations
  /\ nextId <= MaxId
  /\ todos' = [todos EXCEPT ![r] =
                 Append(@, [id |-> nextId, text |-> txt, completed |-> FALSE,
                            hidden |-> FALSE, createdAt |-> now])]
  /\ nextId' = nextId + 1
  /\ cyc' = NoteMutation(r, nextId)
  /\ nMut' = nMut + 1
  /\ UNCHANGED <<now, remote, deleted, syncState, nSync, stage, delId>>
  /\ UNCHANGED mvars
  /\ UNCHANGED lvars
  /\ UNCHANGED codec
  /\ UNCHANGED authed
  /\ UNCHANGED nvars

toggleTodo(r, id) ==
  /\ nMut < MaxMutations
  /\ id \in IdsOf(todos[r])
  /\ todos' = [todos EXCEPT ![r] =
                 [i \in DOMAIN @ |-> IF @[i].id = id
                                     THEN [@[i] EXCEPT !.completed = ~@]
                                     ELSE @[i]]]
  /\ cyc' = NoteMutation(r, id)
  /\ nMut' = nMut + 1
  /\ UNCHANGED <<now, remote, deleted, syncState, nSync, nextId, stage, delId>>
  /\ UNCHANGED mvars
  /\ UNCHANGED lvars
  /\ UNCHANGED codec
  /\ UNCHANGED authed
  /\ UNCHANGED nvars

\* observer: replica "A" has both removed id from its store and recorded the
\* deletion
DeletionComplete(r, id, ts, ds) ==
  r = "A" /\ stage = 0 /\ id \notin IdsOf(ts) /\ id \in TombIds(ds)

\* page.tsx deleteTodo: filters the record out and saves the list
deleteTodo(r, id) ==
  /\ nMut < MaxMutations
  /\ id \in IdsOf(todos[r])
  /\ todos' = [todos EXCEPT ![r] = RemoveId(@, id)]
  /\ cyc' = NoteMutation(r, id)
  /\ IF DeletionComplete(r, id, todos'[r], deleted[r])
     THEN stage' = 1 /\ delId' = id
     ELSE UNCHANGED <<stage, delId>>
  /\ nMut' = nMut + 1
  /\ UNCHANGED <<now, remote, deleted, syncState, nSync, nextId>>
  /\ UNCHANGED mvars
  /\ UNCHANGED lvars
  /\ UNCHANGED codec
  /\ UNCHANGED authed
  /\ UNCHANGED nvars

\* a call of syncManager.markHabitAsDeleted(id)
MarkDeleted(r, id) ==
  /\ nMut < MaxMutations
  /\ id < nextId
  /\ id \notin TombIds(deleted[r])
  /\ deleted' = [deleted EXCEPT ![r] = markHabitAsDeleted(@, id, now)]
  /\ IF DeletionComplete(r, id, todos[r], deleted'[r])
     THEN stage' = 1 /\ delId' = id
     ELSE UNCHANGED <<stage, delId>>
  /\ nMut' = nMut + 1
  /\ UNCHANGED <<now, remote, todos, syncState, cyc, nSync, nextId>>
  /\ UNCHANGED mvars
  /\ UNCHANGED lvars
  /\ UNCHANGED codec
  /\ UNCHANGED authed
  /\ UNCHANGED nvars

(***************************************************************************)
(* sync(): one action per stretch between two suspension points            *)
(***************************************************************************)
updateSyncState(r, updates) ==
  [syncState EXCEPT ![r] = [f \in DOMAIN @ |-> IF f \in DOMAIN updates THEN updates[f] ELSE @[f]]]

\* a forEach whose callback lets the exception of a listener through: the
\* listeners behind the one that throws are not invoked
notifyListeners_NoCatch(ls, i, sn, st, k, T) ==
  LET Stopped(j) == \E h \in i..(j - 1) : ls[h] \in T
  IN [l \in ListenerIds |->
        IF \E j \in i..Len(ls) : ls[j] = l /\ ~Stopped(j)
        THEN [state |-> st, seq |-> k, threw |-> l \in T]
        ELSE sn[l]]

\* notifyListeners: listeners.forEach from position i on; each listener is
\* invoked with a copy of the state; what it throws is caught and logged
RECURSIVE notifyListeners(_, _, _, _, _, _)
notifyListeners(ls, i, sn, st, k, T) ==
  IF i > Len(ls) THEN sn
  ELSE notifyListeners(ls, i + 1,
                       [sn EXCEPT ![ls[i]] = [state |-> st, seq |-> k, threw |-> ls[i] \in T]],
                       st, k, T)

\* updateSyncState, second statement: notifyListeners() with the state just
\* set, no listener throwing
Notify(r) ==
  /\ seen' = notifyListeners(listeners, 1, seen, syncState'[r], nPub, {})
  /\ UNCHANGED <<listeners, nPub>>

\* replica "A" is explored with MaxSyncs invocations, the others with one
SyncsOf(r) == IF r = "A" THEN MaxSyncs ELSE 1

FirstFree(r, S) == CHOOSE c \in S : SlotFree(r, c) /\ \A d \in S : SlotFree(r, d) => c <= d

\* sync() up to the first network wait: the authentication guard, status
\* 'syncing', and getLocalData, which reads the store without suspending
StartCycle(r, S) ==
  /\ authed[r]
  /\ nSync[r] < SyncsOf(r)
  /\ \E c \in S : SlotFree(r, c)
  /\ nSync' = [nSync EXCEPT ![r] = @ + 1]
  /\ syncState' = updateSyncState(r, [status |-> "syncing", lastError |-> "null"])
  /\ cyc' = [cyc EXCEPT ![r][FirstFree(r, S)] =
               [IdleCycle EXCEPT !.pc = "fetch",
                                 !.localData = getLocalData(todos[r], now),
                                 !.startStage = stage]]
  /\ UNCHANGED <<now, remote, todos, deleted, nMut, nextId, stage, delId>>
  /\ UNCHANGED mvars
  /\ Notify(r)
  /\ UNCHANGED codec
  /\ UNCHANGED authed

\* sync() called while the network is up
SyncStart(r, S) ==
  /\ isOnline[r]
  /\ StartCycle(r, S)
  /\ UNCHANGED nvars

\* the periodic timer of startAutoSync: armed while autoSync is on, its
\* callback calls sync() when the network is up
TimerSync(r, S) == config[r].autoSync /\ SyncStart(r, S)

\* manualSync()
manualSync(r, S) == SyncStart(r, S)

\* the remote fetch returns; detectConflicts finds conflicts
SyncConflict(r, c) ==
  LET remoteData == readHabitsData(remote, now)
      conflicts == detectConflicts(cyc[r][c].localData, remoteData)
  IN /\ cyc[r][c].pc = "fetch"
     /\ Len(conflicts) > 0
     /\ syncState' = updateSyncState(r, [status |-> "conflict", conflictCount |-> Len(conflicts)])
     /\ cyc' = [cyc EXCEPT ![r][c] =
                  [IdleCycle EXCEPT !.pc = "done", !.outcome = "conflict",
                                    !.conflicts = conflicts,
                                    !.startStage = cyc[r][c].startStage]]
     /\ UNCHANGED <<now, remote, todos, deleted, nSync, nMut, nextId, stage, delId>>
     /\ UNCHANGED mvars
     /\ Notify(r)
     /\ UNCHANGED codec
     /\ UNCHANGED authed
     /\ UNCHANGED nvars

\* the remote fetch returns; no conflict: mergeData, then the synchronous
\* part of saveLocalData (the two localStorage writes)
SyncMerge(r, c) ==
  LET remoteData == readHabitsData(remote, now)
      conflicts == detectConflicts(cyc[r][c].localData, remoteData)
      mergedData == mergeData(cyc[r][c].localData, remoteData, deleted[r], now)
  IN /\ cyc[r][c].pc = "fetch"
     /\ Len(conflicts) = 0
     /\ deleted' = [deleted EXCEPT ![r] = cleanupDeletedIds(@, now)]
     /\ todos' = [todos EXCEPT ![r] = saveLocalData(mergedData)]
     /\ cyc' = [cyc EXCEPT ![r][c] =
                  [@ EXCEPT !.pc = "getsha", !.localData = EmptyData,
                            !.merged = mergedData, !.fetched = remote,
                            !.wroteLocal = TRUE,
                            !.localWritten = saveLocalData(mergedData)]]
     /\ UNCHANGED <<now, remote, syncState, nSync, nMut, nextId, stage, delId>>
     /\ UNCHANGED mvars
     /\ UNCHANGED lvars
     /\ UNCHANGED codec
     /\ UNCHANGED authed
     /\ UNCHANGED nvars

\* saveRemoteData: getFileContent returns the sha of the current file
SyncGetSha(r, c) ==
  /\ cyc[r][c].pc = "getsha"
  /\ cyc' = [cyc EXCEPT ![r][c] = [@ EXCEPT !.pc = "put", !.sha = getFileSha(remote)]]
  /\ UNCHANGED <<now, remote, todos, deleted, syncState, nSync, nMut, nextId, stage, delId>>
  /\ UNCHANGED mvars
  /\ UNCHANGED lvars
  /\ UNCHANGED codec
  /\ UNCHANGED authed
  /\ UNCHANGED nvars

\* saveRemoteData: writeHabitsData is accepted by the remote store
SyncPut(r, c) ==
  /\ cyc[r][c].pc = "put"
  /\ PutAccepted(remote, cyc[r][c].sha)
  /\ remote' = File(cyc[r][c].merged)
  /\ cyc' = [rr \in Replicas |-> [cc \in Slots |->
               IF rr = r /\ cc = c
               THEN [cyc[r][c] EXCEPT !.pc = "written", !.attempts = @ + 1,
                                      !.remoteWritten = cyc[r][c].merged]
               ELSE IF rr # r /\ cyc[rr][cc].pc \in {"getsha", "put"} /\ remote' # remote
                    THEN [cyc[rr][cc] EXCEPT !.stale = TRUE]
                    ELSE cyc[rr][cc]]]
  /\ UNCHANGED <<now, todos, deleted, syncState, nSync, nMut, nextId, stage, delId>>
  /\ UNCHANGED mvars
  /\ UNCHANGED lvars
  /\ UNCHANGED codec
  /\ UNCHANGED authed
  /\ UNCHANGED nvars

\* a rejected write whose error leaves sync() past its catch: the status
\* stays as it was
SyncPutRejected_NoStatus(r, c) ==
  /\ cyc[r][c].pc = "put"
  /\ ~PutAccepted(remote, cyc[r][c].sha)
  /\ cyc' = [cyc EXCEPT ![r][c] =
               [@ EXCEPT !.pc = "done", !.outcome = "error", !.errType = "network",
                         !.attempts = @ + 1]]
  /\ UNCHANGED <<now, remote, todos, deleted, syncState, nSync, nMut, nextId, stage, delId>>
  /\ UNCHANGED mvars
  /\ UNCHANGED lvars
  /\ UNCHANGED codec
  /\ UNCHANGED authed
  /\ UNCHANGED nvars

\* saveRemoteData: writeHabitsData is rejected; SyncError(.., 'network'),
\* caught by sync(): status 'error', the SyncError is rethrown as it is
SyncPutRejected(r, c) ==
  /\ cyc[r][c].pc = "put"
  /\ ~PutAccepted(remote, cyc[r][c].sha)
  /\ syncState' = updateSyncState(r, [status |-> "error", lastError |-> "Failed to save remote data"])
  /\ cyc' = [cyc EXCEPT ![r][c] =
               [@ EXCEPT !.pc = "done", !.outcome = "error", !.errType = "network",
                         !.attempts = @ + 1]]
  /\ UNCHANGED <<now, remote, todos, deleted, nSync, nMut, nextId, stage, delId>>
  /\ UNCHANGED mvars
  /\ Notify(r)
  /\ UNCHANGED codec
  /\ UNCHANGED authed
  /\ UNCHANGED nvars

\* observer of the delete-then-sync scenario: A syncs, then B, then A again
StageAfterSuccess(r, c) ==
  IF stage = 1 /\ r = "A" /\ cyc[r][c].startStage >= 1 THEN 2
  ELSE IF stage = 2 /\ r = "B" /\ cyc[r][c].startStage >= 2 THEN 3
  ELSE IF stage = 3 /\ r = "A" /\ cyc[r][c].startStage >= 3 THEN 4
  ELSE stage

\* a success reported without waiting for the remote write
SyncSuccess_NoAwait(r, c) ==
  /\ cyc[r][c].pc \in {"put", "written"}
  /\ syncState' = updateSyncState(r, [status |-> "success", lastSyncTime |-> now,
                                      pendingChanges |-> FALSE, conflictCount |-> 0])
  /\ cyc' = [cyc EXCEPT ![r][c] = [@ EXCEPT !.pc = "done", !.outcome = "success"]]
  /\ stage' = StageAfterSuccess(r, c)
  /\ UNCHANGED <<now, remote, todos, deleted, nSync, nMut, nextId, delId>>
  /\ UNCHANGED mvars
  /\ Notify(r)
  /\ UNCHANGED codec
  /\ UNCHANGED authed
  /\ UNCHANGED nvars

\* a cycle that puts the status back to 'idle' once it has ended
SyncSuccess_ToIdle(r, c) ==
  /\ cyc[r][c].pc = "written"
  /\ syncState' = updateSyncState(r, [status |-> "idle", lastSyncTime |-> now,
                                      pendingChanges |-> FALSE, conflictCount |-> 0])
  /\ cyc' = [cyc EXCEPT ![r][c] = [@ EXCEPT !.pc = "done", !.outcome = "success"]]
  /\ stage' = StageAfterSuccess(r, c)
  /\ UNCHANGED <<now, remote, todos, deleted, nSync, nMut, nextId, delId>>
  /\ UNCHANGED mvars
  /\ Notify(r)
  /\ UNCHANGED codec
  /\ UNCHANGED authed
  /\ UNCHANGED nvars

\* both saves have resolved: status 'success'
SyncSuccess(r, c) ==
  /\ cyc[r][c].pc = "written"
  /\ syncState' = updateSyncState(r, [status |-> "success", lastSyncTime |-> now,
                                      pendingChanges |-> FALSE, conflictCount |-> 0])
  /\ cyc' = [cyc EXCEPT ![r][c] = [@ EXCEPT !.pc = "done", !.outcome = "success"]]
  /\ stage' = StageAfterSuccess(r, c)
  /\ UNCHANGED <<now, remote, todos, deleted, nSync, nMut, nextId, delId>>
  /\ UNCHANGED mvars
  /\ Notify(r)
  /\ UNCHANGED codec
  /\ UNCHANGED authed
  /\ UNCHANGED nvars

(***************************************************************************)
(* Spec: one process (replica "A") with overlapping invocations of sync()  *)
(* and UI mutations, beside a second replica "B" that syncs                *)
(***************************************************************************)
\* replica "A" is explored with overlapping invocations, "B" with one at a time
SlotsOf(r) == IF r = "A" THEN Slots ELSE {1}

Next ==
  \/ \E txt \in {"a"} : addTodo("A", txt)
  \/ \E id \in Ids : toggleTodo("A", id)
  \/ \E id \in Ids : deleteTodo("A", id)
  \/ \E id \in Ids : MarkDeleted("A", id)
  \/ \E r \in Replicas : TimerSync(r, SlotsOf(r))
  \/ \E r \in Replicas : manualSync(r, SlotsOf(r))
  \/ \E r \in Replicas : \E c \in Slots : SyncConflict(r, c)
  \/ \E r \in Replicas : \E c \in Slots : SyncMerge(r, c)
  \/ \E r \in Replicas : \E c \in Slots : SyncGetSha(r, c)
  \/ \E r \in Replicas : \E c \in Slots : SyncPut(r, c)
  \/ \E r \in Replicas : \E c \in Slots : SyncPutRejected(r, c)
  \/ \E r \in Replicas : \E c \in Slots : SyncSuccess(r, c)

Spec == Init /\ [][Next]_vars

(***************************************************************************)
(* SpecRep: two replicas, each with one invocation of sync() at a time,    *)
(* deletions and the clock                                                 *)
(***************************************************************************)
NextRep ==
  \/ Tick
  \/ \E id \in Ids : deleteTodo("A", id)
  \/ \E id \in Ids : MarkDeleted("A", id)
  \/ \E r \in Replicas : manualSync(r, {1})
  \/ \E r \in Replicas : SyncConflict(r, 1)
  \/ \E r \in Replicas : SyncMerge(r, 1)
  \/ \E r \in Replicas : SyncGetSha(r, 1)
  \/ \E r \in Replicas : SyncPut(r, 1)
  \/ \E r \in Replicas : SyncPutRejected(r, 1)
  \/ \E r \in Replicas : SyncSuccess(r, 1)

SpecRep == Init /\ [][NextRep]_vars

(***************************************************************************)
(* resolveConflicts(conflicts, resolutions)                                *)
(***************************************************************************)
\* a ConflictInfo side that is null
NoHabit == Habit(0, "", FALSE, FALSE, NoTime, NoTime)

ConflictResolutions == {"local", "remote", "merge", "manual"}

\* a merge of two records that takes the text of the older one first
mergeHabitItems_OlderText(l, r, t) ==
  LET newer == IF EffTime(l) >= EffTime(r) THEN l ELSE r
      older == IF EffTime(l) >= EffTime(r) THEN r ELSE l
  IN [newer EXCEPT !.text = IF older.text # "" THEN older.text ELSE newer.text,
                   !.updatedAt = t]

\* mergeHabitItems(local, remote) at time t
mergeHabitItems(l, r, t) ==
  LET newer == IF EffTime(l) >= EffTime(r) THEN l ELSE r
      older == IF EffTime(l) >= EffTime(r) THEN r ELSE l
  IN [newer EXCEPT !.text = IF newer.text # "" THEN newer.text ELSE older.text,
                   !.updatedAt = t]

\* new Map(habits.map(h => [h.id, h])) as the list of its values
MapList(hs) ==
  LET ks == MapKeys(hs, {}) IN [i \in 1..Len(ks) |-> MapGet(hs, ks[i])]

\* Map.set: an existing key keeps its place, a new key goes last
MapSet(hs, id, h) ==
  IF id \in IdsOf(hs)
  THEN [i \in DOMAIN hs |-> IF hs[i].id = id THEN h ELSE hs[i]]
  ELSE Append(hs, h)

\* one pass of the switch of resolveConflicts
ApplyResolution(hs, conflict, resolution, t) ==
  IF resolution = "remote"
  THEN IF conflict.remote # NoHabit
       THEN MapSet(hs, conflict.id, conflict.remote)
       ELSE RemoveId(hs, conflict.id)
  ELSE IF resolution = "merge"
       THEN IF conflict.local # NoHabit /\ conflict.remote # NoHabit
            THEN MapSet(hs, conflict.id, mergeHabitItems(conflict.local, conflict.remote, t))
            ELSE hs
       ELSE hs

RECURSIVE ResolveLoop(_, _, _, _)
ResolveLoop(hs, cs, rs, t) ==
  IF cs = <<>> THEN hs
  ELSE ResolveLoop(ApplyResolution(hs, Head(cs), Head(rs), t), Tail(cs), Tail(rs), t)

\* resolvedData: the local snapshot with the resolutions applied
resolveData(localData, cs, rs, t) ==
  [localData EXCEPT !.habits = ResolveLoop(MapList(localData.habits), cs, rs, t),
                    !.lastSync = t]

\* the conflict lists handed to resolveConflicts: the list the last sync()
\* of r returned, and that list with the remote side of its first conflict null
ConflictInputs(r, c) ==
  LET cs == cyc[r][c].conflicts
  IN IF cyc[r][c].outcome # "conflict" \/ cs = <<>> THEN {}
     ELSE {cs, [cs EXCEPT ![1] = [@ EXCEPT !.type = "delete", !.remote = NoHabit]]}

\* the resolution lists of length 0 .. MaxCycles
ResolutionInputs ==
  UNION {[1..n -> ConflictResolutions] : n \in 0..MaxCycles}

\* a length check that reports the failure through the sync state
ResolveMismatch_SetsError(r, cs, rs) ==
  /\ Len(cs) # Len(rs)
  /\ lastEvent' = [lastEvent EXCEPT ![r] = "mismatch"]
  /\ syncState' = updateSyncState(r, [status |-> "error", lastError |-> "mismatch"])
  /\ UNCHANGED <<now, remote, todos, deleted, cyc, nSync, nMut, nextId, stage, delId>>
  /\ UNCHANGED <<isOnline, config>>
  /\ UNCHANGED mvars
  /\ Notify(r)
  /\ UNCHANGED codec
  /\ UNCHANGED authed

\* the two lists differ in length: resolveConflicts throws at once
ResolveMismatch(r, cs, rs) ==
  /\ Len(cs) # Len(rs)
  /\ lastEvent' = [lastEvent EXCEPT ![r] = "mismatch"]
  /\ UNCHANGED <<now, remote, todos, deleted, syncState, cyc, nSync, nMut, nextId, stage, delId>>
  /\ UNCHANGED <<isOnline, config>>
  /\ UNCHANGED mvars
  /\ UNCHANGED lvars
  /\ UNCHANGED codec
  /\ UNCHANGED authed

\* resolveConflicts up to its network wait: getLocalData
ResolveStart(r, c, cs, rs) ==
  /\ Len(cs) = Len(rs)
  /\ nSync[r] < SyncsOf(r)
  /\ SlotFree(r, c)
  /\ nSync' = [nSync EXCEPT ![r] = @ + 1]
  /\ cyc' = [cyc EXCEPT ![r][c] =
               [IdleCycle EXCEPT !.pc = "rfetch",
                                 !.localData = getLocalData(todos[r], now),
                                 !.conflicts = cs, !.resolutions = rs,
                                 !.startStage = stage]]
  /\ UNCHANGED <<now, remote, todos, deleted, syncState, nMut, nextId, stage, delId>>
  /\ UNCHANGED mvars
  /\ UNCHANGED lvars
  /\ UNCHANGED codec
  /\ UNCHANGED authed
  /\ UNCHANGED nvars

\* getRemoteData returns (its result is not used); the resolutions are
\* applied and saveLocalData writes the store
ResolveApply(r, c) ==
  LET resolvedData == resolveData(cyc[r][c].localData, cyc[r][c].conflicts,
                                  cyc[r][c].resolutions, now)
  IN /\ cyc[r][c].pc = "rfetch"
     /\ todos' = [todos EXCEPT ![r] = saveLocalData(resolvedData)]
     /\ cyc' = [cyc EXCEPT ![r][c] =
                  [@ EXCEPT !.pc = "rgetsha", !.merged = resolvedData, !.fetched = remote,
                            !.wroteLocal = TRUE,
                            !.localWritten = saveLocalData(resolvedData)]]
     /\ UNCHANGED <<now, remote, deleted, syncState, nSync, nMut, nextId, stage, delId>>
     /\ UNCHANGED mvars
     /\ UNCHANGED lvars
     /\ UNCHANGED codec
     /\ UNCHANGED authed
     /\ UNCHANGED nvars

\* saveRemoteData of resolveConflicts: getFileContent returns the sha
ResolveGetSha(r, c) ==
  /\ cyc[r][c].pc = "rgetsha"
  /\ cyc' = [cyc EXCEPT ![r][c] = [@ EXCEPT !.pc = "rput", !.sha = getFileSha(remote)]]
  /\ UNCHANGED <<now, remote, todos, deleted, syncState, nSync, nMut, nextId, stage, delId>>
  /\ UNCHANGED mvars
  /\ UNCHANGED lvars
  /\ UNCHANGED codec
  /\ UNCHANGED authed
  /\ UNCHANGED nvars

\* saveRemoteData of resolveConflicts: the write is accepted
ResolvePut(r, c) ==
  /\ cyc[r][c].pc = "rput"
  /\ PutAccepted(remote, cyc[r][c].sha)
  /\ remote' = File(cyc[r][c].merged)
  /\ cyc' = [cyc EXCEPT ![r][c] = [@ EXCEPT !.pc = "rwritten", !.attempts = @ + 1,
                                            !.remoteWritten = cyc[r][c].merged]]
  /\ UNCHANGED <<now, todos, deleted, syncState, nSync, nMut, nextId, stage, delId>>
  /\ UNCHANGED mvars
  /\ UNCHANGED lvars
  /\ UNCHANGED codec
  /\ UNCHANGED authed
  /\ UNCHANGED nvars

\* a resolveConflicts that reports success and leaves conflictCount as it was
ResolveSuccess_KeepsCount(r, c) ==
  /\ cyc[r][c].pc = "rwritten"
  /\ syncState' = updateSyncState(r, [status |-> "success", lastSyncTime |-> now])
  /\ cyc' = [cyc EXCEPT ![r][c] = [@ EXCEPT !.pc = "done", !.outcome = "resolved"]]
  /\ UNCHANGED <<now, remote, todos, deleted, nSync, nMut, nextId, stage, delId>>
  /\ UNCHANGED mvars
  /\ Notify(r)
  /\ UNCHANGED codec
  /\ UNCHANGED authed
  /\ UNCHANGED nvars

\* both saves have resolved: status 'success', conflictCount 0
ResolveSuccess(r, c) ==
  /\ cyc[r][c].pc = "rwritten"
  /\ syncState' = updateSyncState(r, [status |-> "success", conflictCount |-> 0,
                                      lastSyncTime |-> now])
  /\ cyc' = [cyc EXCEPT ![r][c] = [@ EXCEPT !.pc = "done", !.outcome = "resolved"]]
  /\ UNCHANGED <<now, remote, todos, deleted, nSync, nMut, nextId, stage, delId>>
  /\ UNCHANGED mvars
  /\ Notify(r)
  /\ UNCHANGED codec
  /\ UNCHANGED authed
  /\ UNCHANGED nvars

\* the records of id 1 and id 2 the remote object starts with
RemoteRecords1 ==
  {Habit(1, txt, cp, FALSE, 0, ua) : txt \in {"", "b"}, cp \in BOOLEAN, ua \in Times}

\* replica "A" holds ids 1 and 2 with text "a"; replica "B" holds what the
\* remote object holds
InitResolve ==
  /\ now = 0
  /\ \E h \in RemoteRecords1 :
       \E hs \in {<<h>>, <<h, Habit(2, "b", FALSE, FALSE, 1, 1)>>} :
         remote = File(HabitsData("1.0", 0, "today", hs, DefaultSettings))
  /\ todos = [r \in Replicas |->
               IF r = "A"
               THEN <<Todo(Habit(1, "a", FALSE, FALSE, 0, 0)), Todo(Habit(2, "a", FALSE, TRUE, 1, 1))>>
               ELSE saveLocalData(remote.data)]
  /\ deleted = [r \in Replicas |-> <<>>]
  /\ syncState = [r \in Replicas |-> InitSyncState]
  /\ cyc = [r \in Replicas |-> [c \in Slots |-> IdleCycle]]
  /\ nSync = [r \in Replicas |-> 0]
  /\ nMut = 0
  /\ nextId = 3
  /\ stage = 0
  /\ delId = 0
  /\ mLocal = EmptyData
  /\ mRemote = EmptyData
  /\ mOut = NoOut
  /\ isOnline = [r \in Replicas |-> TRUE]
  /\ config = [r \in Replicas |-> DefaultConfig]
  /\ lastEvent = [r \in Replicas |-> "none"]
  /\ listeners = <<>>
  /\ seen = [l \in ListenerIds |-> NotInvoked]
  /\ nPub = 0
  /\ authed = [r \in Replicas |-> TRUE]
  /\ codec = NoCodec

NextResolve ==
  \/ Tick
  \/ toggleTodo("A", 1)
  \/ manualSync("A", {1})
  \/ SyncConflict("A", 1)
  \/ \E cs \in ConflictInputs("A", 1) : \E rs \in ResolutionInputs : ResolveMismatch("A", cs, rs)
  \/ \E cs \in ConflictInputs("A", 1) : \E rs \in ResolutionInputs : ResolveStart("A", 1, cs, rs)
  \/ ResolveApply("A", 1)
  \/ ResolveGetSha("A", 1)
  \/ ResolvePut("A", 1)
  \/ ResolveSuccess("A", 1)

SpecResolve == InitResolve /\ [][NextResolve]_vars

(***************************************************************************)
(* SpecNet: one process with the network events, the autoSync switch, the  *)
(* triggers that find the network down and the calls of a cycle that fail  *)
(* while it is down                                                        *)
(***************************************************************************)
\* the 'offline' event: isOnline = false, status 'offline'
NetLoss(r) ==
  /\ isOnline[r]
  /\ isOnline' = [isOnline EXCEPT ![r] = FALSE]
  /\ syncState' = updateSyncState(r, [status |-> "offline"])
  /\ lastEvent' = [lastEvent EXCEPT ![r] = "offline"]
  /\ UNCHANGED <<now, remote, todos, deleted, cyc, nSync, nMut, nextId, stage, delId, config>>
  /\ UNCHANGED mvars
  /\ Notify(r)
  /\ UNCHANGED codec
  /\ UNCHANGED authed

\* an 'online' handler that sets isOnline and leaves the sync to the timer
NetRestore_NoSync(r, S) ==
  /\ ~isOnline[r]
  /\ isOnline' = [isOnline EXCEPT ![r] = TRUE]
  /\ lastEvent' = [lastEvent EXCEPT ![r] = "online"]
  /\ UNCHANGED <<now, remote, todos, deleted, syncState, cyc, nSync, nMut, nextId, stage, delId>>
  /\ UNCHANGED mvars
  /\ UNCHANGED lvars
  /\ UNCHANGED codec
  /\ UNCHANGED authed
  /\ UNCHANGED config

\* the 'online' event: isOnline = true, then sync() when autoSync is on
NetRestore(r, S) ==
  /\ ~isOnline[r]
  /\ isOnline' = [isOnline EXCEPT ![r] = TRUE]
  /\ lastEvent' = [lastEvent EXCEPT ![r] = "online"]
  /\ IF authed[r] /\ config[r].autoSync
     THEN StartCycle(r, S)
     ELSE /\ UNCHANGED <<now, remote, todos, deleted, syncState, cyc, nSync, nMut, nextId,
                         stage, delId>>
          /\ UNCHANGED mvars
          /\ UNCHANGED lvars
          /\ UNCHANGED codec
          /\ UNCHANGED authed
  /\ UNCHANGED config

\* a timer callback that calls sync() without looking at isOnline
TimerSkip_Syncs(r) ==
  /\ config[r].autoSync
  /\ ~isOnline[r]
  /\ StartCycle(r, Slots)
  /\ lastEvent' = [lastEvent EXCEPT ![r] = "timer"]
  /\ UNCHANGED <<isOnline, config>>

\* the timer callback while the network is down: it does nothing
TimerSkip(r) ==
  /\ authed[r]
  /\ config[r].autoSync
  /\ ~isOnline[r]
  /\ lastEvent' = [lastEvent EXCEPT ![r] = "timer"]
  /\ UNCHANGED <<now, remote, todos, deleted, syncState, cyc, nSync, nMut, nextId, stage, delId>>
  /\ UNCHANGED <<isOnline, config>>
  /\ UNCHANGED mvars
  /\ UNCHANGED lvars
  /\ UNCHANGED codec
  /\ UNCHANGED authed

\* manualSync() while the network is down: sync() throws
\* SyncError('Network unavailable', 'network') before it touches anything
manualSyncOffline(r) ==
  /\ authed[r]
  /\ ~isOnline[r]
  /\ lastEvent' = [lastEvent EXCEPT ![r] = "manual"]
  /\ UNCHANGED <<now, remote, todos, deleted, syncState, cyc, nSync, nMut, nextId, stage, delId>>
  /\ UNCHANGED <<isOnline, config>>
  /\ UNCHANGED mvars
  /\ UNCHANGED lvars
  /\ UNCHANGED codec
  /\ UNCHANGED authed

\* setConfig({autoSync}): the timer is re-armed (autoSync on) or left cleared
setConfig(r, a) ==
  /\ a # config[r].autoSync
  /\ config' = [config EXCEPT ![r] = [@ EXCEPT !.autoSync = a]]
  /\ UNCHANGED <<now, remote, todos, deleted, syncState, cyc, nSync, nMut, nextId, stage, delId>>
  /\ UNCHANGED <<isOnline, lastEvent>>
  /\ UNCHANGED mvars
  /\ UNCHANGED lvars
  /\ UNCHANGED codec
  /\ UNCHANGED authed

\* getRemoteData fails while the network is down: the error is caught and the
\* default data stands in for the remote snapshot; no conflict with an empty
\* snapshot, so mergeData and saveLocalData follow
SyncFetchFailed(r, c) ==
  LET remoteData == getDefaultHabitsData(now)
      mergedData == mergeData(cyc[r][c].localData, remoteData, deleted[r], now)
  IN /\ cyc[r][c].pc = "fetch"
     /\ ~isOnline[r]
     /\ deleted' = [deleted EXCEPT ![r] = cleanupDeletedIds(@, now)]
     /\ todos' = [todos EXCEPT ![r] = saveLocalData(mergedData)]
     /\ cyc' = [cyc EXCEPT ![r][c] =
                  [@ EXCEPT !.pc = "getsha", !.localData = EmptyData,
                            !.merged = mergedData, !.fetched = NoFile,
                            !.wroteLocal = TRUE,
                            !.localWritten = saveLocalData(mergedData)]]
     /\ UNCHANGED <<now, remote, syncState, nSync, nMut, nextId, stage, delId>>
     /\ UNCHANGED mvars
     /\ UNCHANGED lvars
     /\ UNCHANGED codec
     /\ UNCHANGED authed
     /\ UNCHANGED nvars

\* saveRemoteData: getFileContent fails while the network is down; the error
\* is caught and the write goes on without a sha
SyncGetShaFailed(r, c) ==
  /\ cyc[r][c].pc = "getsha"
  /\ ~isOnline[r]
  /\ cyc' = [cyc EXCEPT ![r][c] = [@ EXCEPT !.pc = "put", !.sha = NoFile]]
  /\ UNCHANGED <<now, remote, todos, deleted, syncState, nSync, nMut, nextId, stage, delId>>
  /\ UNCHANGED mvars
  /\ UNCHANGED lvars
  /\ UNCHANGED codec
  /\ UNCHANGED authed
  /\ UNCHANGED nvars

\* saveRemoteData: writeHabitsData fails while the network is down;
\* SyncError(.., 'network'), status 'error'
SyncPutFailed(r, c) ==
  /\ cyc[r][c].pc = "put"
  /\ ~isOnline[r]
  /\ syncState' = updateSyncState(r, [status |-> "error", lastError |-> "Failed to save remote data"])
  /\ cyc' = [cyc EXCEPT ![r][c] =
               [@ EXCEPT !.pc = "done", !.outcome = "error", !.errType = "network",
                         !.attempts = @ + 1]]
  /\ UNCHANGED <<now, remote, todos, deleted, nSync, nMut, nextId, stage, delId>>
  /\ UNCHANGED mvars
  /\ Notify(r)
  /\ UNCHANGED codec
  /\ UNCHANGED authed
  /\ UNCHANGED nvars

NextNet ==
  \/ NetLoss("A")
  \/ NetRestore("A", Slots)
  \/ TimerSkip("A")
  \/ manualSyncOffline("A")
  \/ \E a \in BOOLEAN : setConfig("A", a)
  \/ \E id \in Ids : toggleTodo("A", id)
  \/ TimerSync("A", Slots)
  \/ manualSync("A", Slots)
  \/ \E c \in Slots : SyncConflict("A", c)
  \/ \E c \in Slots : SyncMerge("A", c)
  \/ \E c \in Slots : SyncFetchFailed("A", c)
  \/ \E c \in Slots : SyncGetSha("A", c)
  \/ \E c \in Slots : SyncGetShaFailed("A", c)
  \/ \E c \in Slots : SyncPut("A", c)
  \/ \E c \in Slots : SyncPutRejected("A", c)
  \/ \E c \in Slots : SyncPutFailed("A", c)
  \/ \E c \in Slots : SyncSuccess("A", c)

SpecNet == Init /\ [][NextNet]_vars

(***************************************************************************)
(* SpecSched: the triggers of sync() with their origin recorded: the       *)
(* mutation signal, the manual trigger, the periodic timer, the network    *)
(* events                                                                  *)
(***************************************************************************)
\* markPendingChanges(): pendingChanges = true; no timer is armed
markPendingChanges(r) ==
  /\ syncState' = updateSyncState(r, [pendingChanges |-> TRUE])
  /\ lastEvent' = [lastEvent EXCEPT ![r] = "mutation"]
  /\ UNCHANGED <<now, remote, todos, deleted, cyc, nSync, nMut, nextId, stage, delId>>
  /\ UNCHANGED <<isOnline, config>>
  /\ UNCHANGED mvars
  /\ Notify(r)
  /\ UNCHANGED codec
  /\ UNCHANGED authed

\* a manualSync() that leaves the cycle to the one already running
manualSyncCall_Coalesced(r, S) ==
  /\ isOnline[r]
  /\ syncState[r].status # "syncing"
  /\ StartCycle(r, S)
  /\ lastEvent' = [lastEvent EXCEPT ![r] = "manual"]
  /\ UNCHANGED <<isOnline, config>>

\* manualSync() while the network is up: sync() passes its two guards and
\* starts a cycle
manualSyncCall(r, S) ==
  /\ isOnline[r]
  /\ StartCycle(r, S)
  /\ lastEvent' = [lastEvent EXCEPT ![r] = "manual"]
  /\ UNCHANGED <<isOnline, config>>

\* the callback of the periodic timer while the network is up
TimerFire(r, S) ==
  /\ config[r].autoSync
  /\ isOnline[r]
  /\ StartCycle(r, S)
  /\ lastEvent' = [lastEvent EXCEPT ![r] = "timer"]
  /\ UNCHANGED <<isOnline, config>>

\* saveRemoteData of resolveConflicts: getFileContent fails while the network
\* is down; the error is caught and the write goes on without a sha
ResolveGetShaFailed(r, c) ==
  /\ cyc[r][c].pc = "rgetsha"
  /\ ~isOnline[r]
  /\ cyc' = [cyc EXCEPT ![r][c] = [@ EXCEPT !.pc = "rput", !.sha = NoFile]]
  /\ UNCHANGED <<now, remote, todos, deleted, syncState, nSync, nMut, nextId, stage, delId>>
  /\ UNCHANGED mvars
  /\ UNCHANGED lvars
  /\ UNCHANGED codec
  /\ UNCHANGED authed
  /\ UNCHANGED nvars

\* saveRemoteData of resolveConflicts: writeHabitsData fails while the
\* network is down; the SyncError leaves resolveConflicts, which has no
\* catch: updateSyncState is not reached
ResolvePutFailed(r, c) ==
  /\ cyc[r][c].pc = "rput"
  /\ ~isOnline[r]
  /\ cyc' = [cyc EXCEPT ![r][c] =
               [@ EXCEPT !.pc = "done", !.outcome = "threw", !.errType = "network",
                         !.attempts = @ + 1]]
  /\ UNCHANGED <<now, remote, todos, deleted, syncState, nSync, nMut, nextId, stage, delId>>
  /\ UNCHANGED mvars
  /\ UNCHANGED lvars
  /\ UNCHANGED codec
  /\ UNCHANGED authed
  /\ UNCHANGED nvars

NextSched ==
  \/ markPendingChanges("A")
  \/ manualSyncCall("A", Slots)
  \/ manualSyncOffline("A")
  \/ TimerFire("A", Slots)
  \/ TimerSkip("A")
  \/ NetLoss("A")
  \/ NetRestore("A", Slots)
  \/ \E a \in BOOLEAN : setConfig("A", a)
  \/ \E c \in Slots : SyncConflict("A", c)
  \/ \E c \in Slots : SyncMerge("A", c)
  \/ \E c \in Slots : SyncFetchFailed("A", c)
  \/ \E c \in Slots : SyncGetSha("A", c)
  \/ \E c \in Slots : SyncGetShaFailed("A", c)
  \/ \E c \in Slots : SyncPut("A", c)
  \/ \E c \in Slots : SyncPutFailed("A", c)
  \/ \E c \in Slots : SyncSuccess("A", c)
  \/ \E c \in Slots : \E cs \in ConflictInputs("A", c) : \E rs \in ResolutionInputs :
       ResolveMismatch("A", cs, rs)
  \/ \E c \in Slots : \E cs \in ConflictInputs("A", c) : \E rs \in ResolutionInputs :
       ResolveStart("A", c, cs, rs)
  \/ \E c \in Slots : ResolveApply("A", c)
  \/ \E c \in Slots : ResolveGetSha("A", c)
  \/ \E c \in Slots : ResolveGetShaFailed("A", c)
  \/ \E c \in Slots : ResolvePut("A", c)
  \/ \E c \in Slots : ResolvePutFailed("A", c)
  \/ \E c \in Slots : ResolveSuccess("A", c)

SpecSched == Init /\ [][NextSched]_vars

(***************************************************************************)
(* SpecPush: one process whose last cycle may have ended with conflicts,   *)
(* with the calls that are open to its callers afterwards: sync(),         *)
(* resolveConflicts(), push(), the UI mutations and markHabitAsDeleted     *)
(***************************************************************************)
\* push() up to its network wait: data is omitted, getLocalData stands in
PushStart(r, c) ==
  /\ authed[r]
  /\ nSync[r] < SyncsOf(r)
  /\ SlotFree(r, c)
  /\ nSync' = [nSync EXCEPT ![r] = @ + 1]
  /\ cyc' = [cyc EXCEPT ![r][c] =
               [IdleCycle EXCEPT !.pc = "pgetsha",
                                 !.merged = getLocalData(todos[r], now),
                                 !.startStage = stage]]
  /\ UNCHANGED <<now, remote, todos, deleted, syncState, nMut, nextId, stage, delId>>
  /\ UNCHANGED mvars
  /\ UNCHANGED lvars
  /\ UNCHANGED codec
  /\ UNCHANGED authed
  /\ UNCHANGED nvars

\* saveRemoteData of push: getFileContent returns the sha
PushGetSha(r, c) ==
  /\ cyc[r][c].pc = "pgetsha"
  /\ cyc' = [cyc EXCEPT ![r][c] = [@ EXCEPT !.pc = "pput", !.sha = getFileSha(remote)]]
  /\ UNCHANGED <<now, remote, todos, deleted, syncState, nSync, nMut, nextId, stage, delId>>
  /\ UNCHANGED mvars
  /\ UNCHANGED lvars
  /\ UNCHANGED codec
  /\ UNCHANGED authed
  /\ UNCHANGED nvars

\* saveRemoteData of push: the write is accepted
PushPut(r, c) ==
  /\ cyc[r][c].pc = "pput"
  /\ PutAccepted(remote, cyc[r][c].sha)
  /\ remote' = File(cyc[r][c].merged)
  /\ cyc' = [cyc EXCEPT ![r][c] = [@ EXCEPT !.pc = "pwritten", !.attempts = @ + 1,
                                            !.remoteWritten = cyc[r][c].merged]]
  /\ UNCHANGED <<now, todos, deleted, syncState, nSync, nMut, nextId, stage, delId>>
  /\ UNCHANGED mvars
  /\ UNCHANGED lvars
  /\ UNCHANGED codec
  /\ UNCHANGED authed
  /\ UNCHANGED nvars

\* saveRemoteData of push or of resolveConflicts: the write is rejected; the
\* SyncError leaves the call, which has no catch
PutRejectedUncaught(r, c) ==
  /\ cyc[r][c].pc \in {"pput", "rput"}
  /\ ~PutAccepted(remote, cyc[r][c].sha)
  /\ cyc' = [cyc EXCEPT ![r][c] =
               [@ EXCEPT !.pc = "done", !.outcome = "threw", !.errType = "network",
                         !.attempts = @ + 1]]
  /\ UNCHANGED <<now, remote, todos, deleted, syncState, nSync, nMut, nextId, stage, delId>>
  /\ UNCHANGED mvars
  /\ UNCHANGED lvars
  /\ UNCHANGED codec
  /\ UNCHANGED authed
  /\ UNCHANGED nvars

\* push: the write has resolved: pendingChanges = false
PushDone(r, c) ==
  /\ cyc[r][c].pc = "pwritten"
  /\ syncState' = updateSyncState(r, [pendingChanges |-> FALSE])
  /\ cyc' = [cyc EXCEPT ![r][c] = [@ EXCEPT !.pc = "done", !.outcome = "pushed"]]
  /\ UNCHANGED <<now, remote, todos, deleted, nSync, nMut, nextId, stage, delId>>
  /\ UNCHANGED mvars
  /\ Notify(r)
  /\ UNCHANGED codec
  /\ UNCHANGED authed
  /\ UNCHANGED nvars

\* the remote object holds id 1, with the text of replica "A" or another,
\* alone or beside an id 2 that replica "A" does not hold
InitPush ==
  /\ now = 0
  /\ \E txt \in {"a", "b"} :
       \E hs \in {<<Habit1(txt, FALSE)>>,
                  <<Habit1(txt, FALSE), Habit(2, "b", FALSE, FALSE, 0, 0)>>} :
         remote = File(HabitsData("1.0", 0, "today", hs, DefaultSettings))
  /\ todos = [r \in Replicas |->
               IF r = "A" THEN <<Todo(Habit1("a", FALSE))>> ELSE saveLocalData(remote.data)]
  /\ deleted = [r \in Replicas |-> <<>>]
  /\ syncState = [r \in Replicas |-> InitSyncState]
  /\ cyc = [r \in Replicas |-> [c \in Slots |-> IdleCycle]]
  /\ nSync = [r \in Replicas |-> 0]
  /\ nMut = 0
  /\ nextId = 3
  /\ stage = 0
  /\ delId = 0
  /\ mLocal = EmptyData
  /\ mRemote = EmptyData
  /\ mOut = NoOut
  /\ isOnline = [r \in Replicas |-> TRUE]
  /\ config = [r \in Replicas |-> DefaultConfig]
  /\ lastEvent = [r \in Replicas |-> "none"]
  /\ listeners = <<>>
  /\ seen = [l \in ListenerIds |-> NotInvoked]
  /\ nPub = 0
  /\ authed = [r \in Replicas |-> TRUE]
  /\ codec = NoCodec

NextPush ==
  \/ toggleTodo("A", 1)
  \/ deleteTodo("A", 1)
  \/ MarkDeleted("A", 1)
  \/ manualSync("A", Slots)
  \/ \E c \in Slots : SyncConflict("A", c)
  \/ \E c \in Slots : SyncMerge("A", c)
  \/ \E c \in Slots : SyncGetSha("A", c)
  \/ \E c \in Slots : SyncPut("A", c)
  \/ \E c \in Slots : SyncPutRejected("A", c)
  \/ \E c \in Slots : SyncSuccess("A", c)
  \/ \E c \in Slots : \E cs \in ConflictInputs("A", c) : \E rs \in ResolutionInputs :
       ResolveStart("A", c, cs, rs)
  \/ \E c \in Slots : ResolveApply("A", c)
  \/ \E c \in Slots : ResolveGetSha("A", c)
  \/ \E c \in Slots : ResolvePut("A", c)
  \/ \E c \in Slots : ResolveSuccess("A", c)
  \/ \E c \in Slots : PushStart("A", c)
  \/ \E c \in Slots : PushGetSha("A", c)
  \/ \E c \in Slots : PushPut("A", c)
  \/ \E c \in Slots : PutRejectedUncaught("A", c)
  \/ \E c \in Slots : PushDone("A", c)

SpecPush == InitPush /\ [][NextPush]_vars

(***************************************************************************)
(* SpecLive: one process, its triggers and the network events, with every  *)
(* call a cycle of sync() waits for returning or failing in the end        *)
(***************************************************************************)
NextLive ==
  \/ manualSync("A", Slots)
  \/ NetLoss("A")
  \/ NetRestore("A", Slots)
  \/ \E a \in BOOLEAN : setConfig("A", a)
  \/ \E c \in Slots : SyncConflict("A", c)
  \/ \E c \in Slots : SyncMerge("A", c)
  \/ \E c \in Slots : SyncFetchFailed("A", c)
  \/ \E c \in Slots : SyncGetSha("A", c)
  \/ \E c \in Slots : SyncGetShaFailed("A", c)
  \/ \E c \in Slots : SyncPut("A", c)
  \/ \E c \in Slots : SyncPutRejected("A", c)
  \/ \E c \in Slots : SyncPutFailed("A", c)
  \/ \E c \in Slots : SyncSuccess("A", c)

\* the continuations of the invocation of sync() in slot c: one of them runs
\* when the call it waits for returns or fails
SpecLive ==
  /\ Init
  /\ [][NextLive]_vars
  /\ \A c \in Slots :
       WF_vars(\/ SyncConflict("A", c)
               \/ SyncMerge("A", c)
               \/ SyncFetchFailed("A", c)
               \/ SyncGetSha("A", c)
               \/ SyncGetShaFailed("A", c)
               \/ SyncPut("A", c)
               \/ SyncPutRejected("A", c)
               \/ SyncPutFailed("A", c)
               \/ SyncSuccess("A", c))

(***************************************************************************)
(* SpecListen: subscriptions and the notification of the listeners on a    *)
(* state update                                                            *)
(***************************************************************************)
\* onSyncStateChange(listener): push
onSyncStateChange(l) ==
  /\ Len(listeners) < MaxListeners
  /\ listeners' = Append(listeners, l)
  /\ UNCHANGED <<now, remote, todos, deleted, syncState, cyc, nSync, nMut, nextId, stage, delId>>
  /\ UNCHANGED <<seen, nPub>>
  /\ UNCHANGED codec
  /\ UNCHANGED authed
  /\ UNCHANGED mvars
  /\ UNCHANGED nvars

\* the handle onSyncStateChange returned: indexOf, then splice
unsubscribe(l) ==
  /\ \E i \in DOMAIN listeners : listeners[i] = l
  /\ LET index == CHOOSE i \in DOMAIN listeners :
                     listeners[i] = l /\ \A j \in DOMAIN listeners : listeners[j] = l => i <= j
     IN listeners' = SubSeq(listeners, 1, index - 1) \o SubSeq(listeners, index + 1, Len(listeners))
  /\ UNCHANGED <<now, remote, todos, deleted, syncState, cyc, nSync, nMut, nextId, stage, delId>>
  /\ UNCHANGED <<seen, nPub>>
  /\ UNCHANGED codec
  /\ UNCHANGED authed
  /\ UNCHANGED mvars
  /\ UNCHANGED nvars

\* the updates handed to updateSyncState by markPendingChanges, push and sync()
PublishedUpdates ==
  {[pendingChanges |-> TRUE], [pendingChanges |-> FALSE],
   [status |-> "syncing", lastError |-> "null"]}

\* updateSyncState(updates): the state is replaced, then notifyListeners;
\* the listeners of T throw
PublishUpdate(r, updates, T) ==
  /\ nPub < MaxPubs
  /\ nPub' = nPub + 1
  /\ syncState' = updateSyncState(r, updates)
  /\ seen' = notifyListeners(listeners, 1, seen, syncState'[r], nPub + 1, T)
  /\ UNCHANGED <<now, remote, todos, deleted, cyc, nSync, nMut, nextId, stage, delId>>
  /\ UNCHANGED listeners
  /\ UNCHANGED codec
  /\ UNCHANGED authed
  /\ UNCHANGED mvars
  /\ UNCHANGED nvars

NextListen ==
  \/ \E l \in ListenerIds : onSyncStateChange(l)
  \/ \E l \in ListenerIds : unsubscribe(l)
  \/ \E updates \in PublishedUpdates : \E T \in SUBSET ListenerIds :
       PublishUpdate("A", updates, T)

SpecListen == Init /\ [][NextListen]_vars

(***************************************************************************)
(* SpecFanout: subscriptions and state updates whose listeners call        *)
(* unsubscribe handles while they are being notified                       *)
(***************************************************************************)
\* notifyListeners when listeners call handles: Array.prototype.forEach
\* visits the indices i .. n, n being the length of the array when forEach
\* started, and skips an index the array no longer has; the listener at
\* index i is invoked with the state, then the handle H[l] it calls (0: none)
\* splices the array the loop is walking: indexOf, then splice of the first
\* occurrence
RECURSIVE forEachListener(_, _, _, _, _, _, _)
forEachListener(ls, i, n, sn, st, k, H) ==
  IF i > n THEN [listeners |-> ls, seen |-> sn]
  ELSE IF i > Len(ls) THEN forEachListener(ls, i + 1, n, sn, st, k, H)
  ELSE LET l == ls[i]
           spliced ==
             IF \E j \in DOMAIN ls : ls[j] = H[l]
             THEN LET index == CHOOSE j \in DOMAIN ls :
                                 ls[j] = H[l] /\ \A m \in DOMAIN ls : ls[m] = H[l] => j <= m
                  IN SubSeq(ls, 1, index - 1) \o SubSeq(ls, index + 1, Len(ls))
             ELSE ls
       IN forEachListener(spliced, i + 1, n,
                          [sn EXCEPT ![l] = [state |-> st, seq |-> k, threw |-> FALSE]],
                          st, k, H)

\* updateSyncState(updates) with listeners that call handles
PublishReentrant(r, updates, H) ==
  LET result == forEachListener(listeners, 1, Len(listeners), seen,
                                updateSyncState(r, updates)[r], nPub + 1, H)
  IN /\ nPub < MaxPubs
     /\ nPub' = nPub + 1
     /\ syncState' = updateSyncState(r, updates)
     /\ listeners' = result.listeners
     /\ seen' = result.seen
     /\ UNCHANGED <<now, remote, todos, deleted, cyc, nSync, nMut, nextId, stage, delId>>
     /\ UNCHANGED codec
     /\ UNCHANGED authed
     /\ UNCHANGED mvars
     /\ UNCHANGED nvars

NextFanout ==
  \/ \E l \in ListenerIds : onSyncStateChange(l)
  \/ \E l \in ListenerIds : unsubscribe(l)
  \/ \E updates \in PublishedUpdates : \E H \in [ListenerIds -> {0} \cup ListenerIds] :
       PublishReentrant("A", updates, H)

SpecFanout == Init /\ [][NextFanout]_vars

(***************************************************************************)
(* SpecAuth: one process with a subscribed listener, the session ending    *)
(* and starting again between invocations, the network events and sync()   *)
(* called in every state                                                   *)
(***************************************************************************)
\* authManager.clearAuth(): isAuthenticated = false; explored while no
\* invocation is suspended
clearAuth(r) ==
  /\ authed[r]
  /\ \A c \in Slots : SlotFree(r, c)
  /\ authed' = [authed EXCEPT ![r] = FALSE]
  /\ UNCHANGED <<now, remote, todos, deleted, syncState, cyc, nSync, nMut, nextId, stage, delId>>
  /\ UNCHANGED mvars
  /\ UNCHANGED lvars
  /\ UNCHANGED codec
  /\ UNCHANGED nvars

\* authManager.setToken(token) succeeds: isAuthenticated = true
setToken(r) ==
  /\ ~authed[r]
  /\ authed' = [authed EXCEPT ![r] = TRUE]
  /\ UNCHANGED <<now, remote, todos, deleted, syncState, cyc, nSync, nMut, nextId, stage, delId>>
  /\ UNCHANGED mvars
  /\ UNCHANGED lvars
  /\ UNCHANGED codec
  /\ UNCHANGED nvars

\* a sync() whose two guards sit inside its try: the catch sets status
\* 'error' before the error is thrown again
syncRejected_ThroughCatch(r) ==
  /\ ~authed[r] \/ ~isOnline[r]
  /\ lastEvent' = [lastEvent EXCEPT ![r] = IF ~authed[r] THEN "auth" ELSE "network"]
  /\ syncState' = updateSyncState(r, [status |-> "error",
                                      lastError |-> IF ~authed[r] THEN "Not authenticated"
                                                    ELSE "Network unavailable"])
  /\ Notify(r)
  /\ UNCHANGED <<now, remote, todos, deleted, cyc, nSync, nMut, nextId, stage, delId>>
  /\ UNCHANGED <<isOnline, config>>
  /\ UNCHANGED mvars
  /\ UNCHANGED codec
  /\ UNCHANGED authed

\* sync() called while unauthenticated or while the network is down: it
\* throws SyncError(.., 'auth'), or else SyncError(.., 'network'), before it
\* does anything; lastEvent records the type of the error thrown
syncRejected(r) ==
  /\ ~authed[r] \/ ~isOnline[r]
  /\ lastEvent' = [lastEvent EXCEPT ![r] = IF ~authed[r] THEN "auth" ELSE "network"]
  /\ UNCHANGED <<now, remote, todos, deleted, syncState, cyc, nSync, nMut, nextId, stage, delId>>
  /\ UNCHANGED <<isOnline, config>>
  /\ UNCHANGED mvars
  /\ UNCHANGED lvars
  /\ UNCHANGED codec
  /\ UNCHANGED authed

NextAuth ==
  \/ onSyncStateChange(1)
  \/ clearAuth("A")
  \/ setToken("A")
  \/ NetLoss("A")
  \/ NetRestore("A", Slots)
  \/ \E a \in BOOLEAN : setConfig("A", a)
  \/ manualSyncCall("A", Slots)
  \/ syncRejected("A")
  \/ \E c \in Slots : SyncConflict("A", c)
  \/ \E c \in Slots : SyncMerge("A", c)
  \/ \E c \in Slots : SyncFetchFailed("A", c)
  \/ \E c \in Slots : SyncGetSha("A", c)
  \/ \E c \in Slots : SyncGetShaFailed("A", c)
  \/ \E c \in Slots : SyncPut("A", c)
  \/ \E c \in Slots : SyncPutRejected("A", c)
  \/ \E c \in Slots : SyncPutFailed("A", c)
  \/ \E c \in Slots : SyncSuccess("A", c)

SpecAuth == Init /\ [][NextAuth]_vars

(***************************************************************************)
(* SpecCodec: the two Base64 codecs applied to bounded texts. A text is a  *)
(* sequence of UTF-16 code units, Base64 a sequence of 6-bit values with   *)
(* Pad for '=' and Newline for a line break                                *)
(***************************************************************************)
MaxLen == 3
\* 'a', U+0301 (combining acute), U+6D4B (CJK), the two halves of U+1F3AF
\* (emoji), U+FEFF
CodeUnits == {97, 769, 27979, 55356, 57263, 65279}

IsHighSurrogate(u) == u >= 55296 /\ u <= 56319
IsLowSurrogate(u) == u >= 56320 /\ u <= 57343
\* U+FFFD, which TextEncoder puts for an unpaired surrogate and TextDecoder
\* for a malformed byte sequence
ReplacementChar == 65533
\* U+FEFF, which TextDecoder('utf-8') drops at the start of its input
ByteOrderMark == 65279
Pad == 64
Newline == 65

\* the code points of a string (USVString conversion of TextEncoder.encode)
RECURSIVE CodePoints(_)
CodePoints(s) ==
  IF s = <<>> THEN <<>>
  ELSE IF IsHighSurrogate(s[1]) /\ Len(s) >= 2 /\ IsLowSurrogate(s[2])
       THEN <<65536 + (s[1] - 55296) * 1024 + (s[2] - 56320)>>
              \o CodePoints(SubSeq(s, 3, Len(s)))
       ELSE IF IsHighSurrogate(s[1]) \/ IsLowSurrogate(s[1])
            THEN <<ReplacementChar>> \o CodePoints(Tail(s))
            ELSE <<s[1]>> \o CodePoints(Tail(s))

\* the UTF-8 bytes of one code point
Utf8Of(cp) ==
  IF cp < 128 THEN <<cp>>
  ELSE IF cp < 2048 THEN <<192 + (cp \div 64), 128 + (cp % 64)>>
  ELSE IF cp < 65536
       THEN <<224 + (cp \div 4096), 128 + ((cp \div 64) % 64), 128 + (cp % 64)>>
       ELSE <<240 + (cp \div 262144), 128 + ((cp \div 4096) % 64),
              128 + ((cp \div 64) % 64), 128 + (cp % 64)>>

RECURSIVE Utf8OfAll(_)
Utf8OfAll(cps) == IF cps = <<>> THEN <<>> ELSE Utf8Of(cps[1]) \o Utf8OfAll(Tail(cps))

\* new TextEncoder().encode(text)
TextEncoderEncode(text) == Utf8OfAll(CodePoints(text))

\* btoa of the binary string of the bytes
RECURSIVE btoa(_)
btoa(bs) ==
  IF bs = <<>> THEN <<>>
  ELSE IF Len(bs) = 1
       THEN <<bs[1] \div 4, (bs[1] % 4) * 16, Pad, Pad>>
       ELSE IF Len(bs) = 2
            THEN <<bs[1] \div 4, ((bs[1] % 4) * 16) + (bs[2] \div 16), (bs[2] % 16) * 4, Pad>>
            ELSE <<bs[1] \div 4, ((bs[1] % 4) * 16) + (bs[2] \div 16),
                   ((bs[2] % 16) * 4) + (bs[3] \div 64), bs[3] % 64>>
                   \o btoa(SubSeq(bs, 4, Len(bs)))

\* base64.replace(/\n/g, '')
RECURSIVE cleanBase64(_)
cleanBase64(b) ==
  IF b = <<>> THEN <<>>
  ELSE IF b[1] = Newline THEN cleanBase64(Tail(b))
       ELSE <<b[1]>> \o cleanBase64(Tail(b))

\* atob: the bytes of a padded Base64 string
RECURSIVE atob(_)
atob(b) ==
  IF Len(b) < 4 THEN <<>>
  ELSE (<<(b[1] * 4) + (b[2] \div 16)>>
          \o (IF b[3] = Pad THEN <<>>
              ELSE <<((b[2] % 16) * 16) + (b[3] \div 4)>>
                     \o (IF b[4] = Pad THEN <<>> ELSE <<((b[3] % 4) * 64) + b[4]>>)))
       \o atob(SubSeq(b, 5, Len(b)))

IsContinuation(bs, i) == i <= Len(bs) /\ bs[i] >= 128 /\ bs[i] < 192

\* the code points of a byte sequence; a malformed sequence gives U+FFFD
RECURSIVE Utf8Decode(_)
Utf8Decode(bs) ==
  IF bs = <<>> THEN <<>>
  ELSE IF bs[1] < 128 THEN <<bs[1]>> \o Utf8Decode(Tail(bs))
  ELSE IF bs[1] >= 192 /\ bs[1] < 224 /\ IsContinuation(bs, 2)
       THEN <<(bs[1] - 192) * 64 + (bs[2] - 128)>> \o Utf8Decode(SubSeq(bs, 3, Len(bs)))
  ELSE IF bs[1] >= 224 /\ bs[1] < 240 /\ IsContinuation(bs, 2) /\ IsContinuation(bs, 3)
       THEN <<(bs[1] - 224) * 4096 + (bs[2] - 128) * 64 + (bs[3] - 128)>>
              \o Utf8Decode(SubSeq(bs, 4, Len(bs)))
  ELSE IF /\ bs[1] >= 240 /\ bs[1] < 248
          /\ IsContinuation(bs, 2) /\ IsContinuation(bs, 3) /\ IsContinuation(bs, 4)
       THEN <<(bs[1] - 240) * 262144 + (bs[2] - 128) * 4096 + (bs[3] - 128) * 64
                + (bs[4] - 128)>>
              \o Utf8Decode(SubSeq(bs, 5, Len(bs)))
  ELSE <<ReplacementChar>> \o Utf8Decode(Tail(bs))

\* the UTF-16 code units of a sequence of code points
RECURSIVE CodeUnitsOf(_)
CodeUnitsOf(cps) ==
  IF cps = <<>> THEN <<>>
  ELSE IF cps[1] >= 65536
       THEN <<55296 + ((cps[1] - 65536) \div 1024), 56320 + ((cps[1] - 65536) % 1024)>>
              \o CodeUnitsOf(Tail(cps))
       ELSE <<cps[1]>> \o CodeUnitsOf(Tail(cps))

\* a decoder that takes every byte for a character (the binary string of
\* atob returned as it is)
TextDecoderDecode_Latin1(bs) == bs

\* new TextDecoder('utf-8').decode(bytes): ignoreBOM is false, so a leading
\* U+FEFF is taken for the byte order mark and left out
TextDecoderDecode(bs) ==
  LET cps == Utf8Decode(bs)
  IN CodeUnitsOf(IF cps # <<>> /\ cps[1] = ByteOrderMark THEN Tail(cps) ELSE cps)

\* GitHubClient.encodeToBase64 / decodeFromBase64
encodeToBase64(text) == btoa(TextEncoderEncode(text))
decodeFromBase64(base64) == TextDecoderDecode(atob(cleanBase64(base64)))

\* encoding-utils: encodeUTF8ToBase64 / decodeBase64ToUTF8
encodeUTF8ToBase64(text) == btoa(TextEncoderEncode(text))
decodeBase64ToUTF8(base64) == TextDecoderDecode(atob(cleanBase64(base64)))

\* everything but the codec
ovars == <<now, remote, todos, deleted, syncState, cyc, nSync, nMut, nextId, stage, delId,
           mLocal, mRemote, mOut, isOnline, config, lastEvent, listeners, seen, nPub,
           authed>>

InitCodec ==
  /\ now = 0
  /\ remote = File(HabitsData("1.0", 0, "today", <<Habit1("a", FALSE)>>, DefaultSettings))
  /\ todos = [r \in Replicas |-> <<Todo(Habit1("a", FALSE))>>]
  /\ deleted = [r \in Replicas |-> <<>>]
  /\ syncState = [r \in Replicas |-> InitSyncState]
  /\ cyc = [r \in Replicas |-> [c \in Slots |-> IdleCycle]]
  /\ nSync = [r \in Replicas |-> 0]
  /\ nMut = 0
  /\ nextId = 2
  /\ stage = 0
  /\ delId = 0
  /\ mLocal = EmptyData
  /\ mRemote = EmptyData
  /\ mOut = NoOut
  /\ isOnline = [r \in Replicas |-> TRUE]
  /\ config = [r \in Replicas |-> DefaultConfig]
  /\ lastEvent = [r \in Replicas |-> "none"]
  /\ listeners = <<>>
  /\ seen = [l \in ListenerIds |-> NotInvoked]
  /\ nPub = 0
  /\ authed = [r \in Replicas |-> TRUE]
  /\ \E text \in UNION {[1..n -> CodeUnits] : n \in 0..MaxLen} : \E w \in {"client", "utils"} :
       codec = [NoCodec EXCEPT !.which = w, !.stage = "text", !.text = text]

\* GitHubClient.createOrUpdateFile: the content is encoded
ClientEncode ==
  /\ codec.which = "client" /\ codec.stage = "text"
  /\ codec' = [codec EXCEPT !.stage = "encoded", !.base64 = encodeToBase64(codec.text)]
  /\ UNCHANGED ovars

\* GitHubClient.readHabitsData: the content is decoded
ClientDecode ==
  /\ codec.which = "client" /\ codec.stage = "encoded"
  /\ codec' = [codec EXCEPT !.stage = "decoded", !.decoded = decodeFromBase64(codec.base64)]
  /\ UNCHANGED ovars

\* testEncoding: encodeUTF8ToBase64(testString)
UtilsEncode ==
  /\ codec.which = "utils" /\ codec.stage = "text"
  /\ codec' = [codec EXCEPT !.stage = "encoded", !.base64 = encodeUTF8ToBase64(codec.text)]
  /\ UNCHANGED ovars

\* testEncoding: decodeBase64ToUTF8(encoded)
UtilsDecode ==
  /\ codec.which = "utils" /\ codec.stage = "encoded"
  /\ codec' = [codec EXCEPT !.stage = "decoded", !.decoded = decodeBase64ToUTF8(codec.base64)]
  /\ UNCHANGED ovars

NextCodec ==
  \/ ClientEncode
  \/ ClientDecode
  \/ UtilsEncode
  \/ UtilsDecode

SpecCodec == InitCodec /\ [][NextCodec]_vars

(***************************************************************************)
(* SpecMerge: detectConflicts and mergeData applied to snapshots drawn     *)
(* from bounded sets, with the tombstone list of one replica and the clock *)
(***************************************************************************)
Texts == {"a", "b"}

\* id 1 in every variation of text, flags and update time;
\* every other id as one fixed record created later
RecordsOf(id) ==
  IF id = 1
  THEN {Habit(1, txt, cp, hd, 0, ua) : txt \in Texts, cp \in BOOLEAN, hd \in BOOLEAN, ua \in Times}
  ELSE {Habit(id, "a", FALSE, FALSE, 1, 1)}

\* the sequences that hold at most one record per id, ids ascending
RECURSIVE HabitLists(_)
HabitLists(n) ==
  IF n = 0 THEN {<<>>}
  ELSE HabitLists(n - 1) \cup {Append(hs, h) : hs \in HabitLists(n - 1), h \in RecordsOf(n)}

Snapshots == {HabitsData("1.0", ls, "today", hs, DefaultSettings) :
                ls \in Times, hs \in HabitLists(MaxId)}

InitMerge ==
  /\ now = 0
  /\ remote = NoFile
  /\ todos = [r \in Replicas |-> <<>>]
  /\ deleted = [r \in Replicas |-> <<>>]
  /\ syncState = [r \in Replicas |-> InitSyncState]
  /\ cyc = [r \in Replicas |-> [c \in Slots |-> IdleCycle]]
  /\ nSync = [r \in Replicas |-> 0]
  /\ nMut = 0
  /\ nextId = 2
  /\ stage = 0
  /\ delId = 0
  /\ mLocal \in Snapshots
  /\ mRemote \in {d \in Snapshots :
                    /\ d.lastSync = 0
                    /\ \A i \in DOMAIN d.habits :
                         d.habits[i].text = "a" /\ ~d.habits[i].completed /\ ~d.habits[i].hidden}
  /\ mOut = NoOut
  /\ isOnline = [r \in Replicas |-> TRUE]
  /\ config = [r \in Replicas |-> DefaultConfig]
  /\ lastEvent = [r \in Replicas |-> "none"]
  /\ listeners = <<>>
  /\ seen = [l \in ListenerIds |-> NotInvoked]
  /\ nPub = 0
  /\ authed = [r \in Replicas |-> TRUE]
  /\ codec = NoCodec

pvars == <<remote, todos, syncState, cyc, nSync, nMut, nextId, stage, delId,
           isOnline, config, lastEvent, listeners, seen, nPub, codec, authed>>

MTick ==
  /\ now < MaxTime
  /\ now' = now + 1
  /\ mOut' = NoOut
  /\ UNCHANGED <<deleted, mLocal, mRemote>>
  /\ UNCHANGED pvars

MMarkDeleted(id) ==
  /\ deleted' = [deleted EXCEPT !["A"] = markHabitAsDeleted(@, id, now)]
  /\ mOut' = NoOut
  /\ UNCHANGED <<now, mLocal, mRemote>>
  /\ UNCHANGED pvars

MDetect ==
  /\ mOut' = [kind |-> "detect", data |-> EmptyData,
              conflicts |-> detectConflicts(mLocal, mRemote), tombs |-> deleted["A"]]
  /\ UNCHANGED <<now, deleted, mLocal, mRemote>>
  /\ UNCHANGED pvars

MMerge ==
  /\ mOut' = [kind |-> "merge", data |-> mergeData(mLocal, mRemote, deleted["A"], now),
              conflicts |-> <<>>, tombs |-> deleted["A"]]
  /\ deleted' = [deleted EXCEPT !["A"] = cleanupDeletedIds(@, now)]
  /\ UNCHANGED <<now, mLocal, mRemote>>
  /\ UNCHANGED pvars

\* detectConflicts and mergeData applied to the local snapshot and itself
MSelf ==
  /\ mOut' = [kind |-> "self", data |-> mergeData(mLocal, mLocal, deleted["A"], now),
              conflicts |-> detectConflicts(mLocal, mLocal), tombs |-> deleted["A"]]
  /\ deleted' = [deleted EXCEPT !["A"] = cleanupDeletedIds(@, now)]
  /\ UNCHANGED <<now, mLocal, mRemote>>
  /\ UNCHANGED pvars

NextMerge ==
  \/ MTick
  \/ \E id \in Ids : MMarkDeleted(id)
  \/ MDetect
  \/ MMerge
  \/ MSelf

SpecMerge == InitMerge /\ [][NextMerge]_vars

(***************************************************************************)
(* SpecOrder: detectConflicts and mergeData applied to snapshots whose     *)
(* records come in any order, an id possibly more than once                *)
(***************************************************************************)
OrderLists ==
  UNION {[1..n -> {Habit(id, "a", FALSE, FALSE, ca, ca) : id \in Ids, ca \in {0, 1}}] :
           n \in 0..MaxId}

InitOrder ==
  /\ now = 0
  /\ remote = File(HabitsData("1.0", 0, "today", <<Habit1("a", FALSE)>>, DefaultSettings))
  /\ todos = [r \in Replicas |-> <<Todo(Habit1("a", FALSE))>>]
  /\ deleted = [r \in Replicas |-> <<>>]
  /\ syncState = [r \in Replicas |-> InitSyncState]
  /\ cyc = [r \in Replicas |-> [c \in Slots |-> IdleCycle]]
  /\ nSync = [r \in Replicas |-> 0]
  /\ nMut = 0
  /\ nextId = 2
  /\ stage = 0
  /\ delId = 0
  /\ \E hs \in OrderLists : mLocal = HabitsData("1.0", 0, "today", hs, DefaultSettings)
  /\ \E hs \in OrderLists : mRemote = HabitsData("1.0", 0, "today", hs, DefaultSettings)
  /\ mOut = NoOut
  /\ isOnline = [r \in Replicas |-> TRUE]
  /\ config = [r \in Replicas |-> DefaultConfig]
  /\ lastEvent = [r \in Replicas |-> "none"]
  /\ listeners = <<>>
  /\ seen = [l \in ListenerIds |-> NotInvoked]
  /\ nPub = 0
  /\ authed = [r \in Replicas |-> TRUE]
  /\ codec = NoCodec

SpecOrder == InitOrder /\ [][NextMerge]_vars

(***************************************************************************)
(* SpecMeta: mergeData applied to snapshots that differ in their metadata  *)
(***************************************************************************)
\* settings as getLocalData builds them for either value of config.autoSync,
\* and settings written by a client that stores one more key
MetaSnapshots ==
  {HabitsData(ver, ls, lrd, hs, st) :
     ver \in {"1.0", "1.1"}, ls \in Times, lrd \in {"today", "yesterday"},
     hs \in {<<>>, <<Habit1("a", FALSE)>>},
     st \in {DefaultSettings,
             [DefaultSettings EXCEPT !.autoSync = FALSE],
             [theme |-> "dark", autoSync |-> TRUE, encryptionEnabled |-> TRUE,
              language |-> "zh"]}}

InitMeta ==
  /\ now = MaxTime
  /\ remote = File(HabitsData("1.0", 0, "today", <<Habit1("a", FALSE)>>, DefaultSettings))
  /\ todos = [r \in Replicas |-> <<Todo(Habit1("a", FALSE))>>]
  /\ deleted = [r \in Replicas |-> <<>>]
  /\ syncState = [r \in Replicas |-> InitSyncState]
  /\ cyc = [r \in Replicas |-> [c \in Slots |-> IdleCycle]]
  /\ nSync = [r \in Replicas |-> 0]
  /\ nMut = 0
  /\ nextId = 2
  /\ stage = 0
  /\ delId = 0
  /\ mLocal \in MetaSnapshots
  /\ mRemote \in MetaSnapshots
  /\ mOut = NoOut
  /\ isOnline = [r \in Replicas |-> TRUE]
  /\ config = [r \in Replicas |-> DefaultConfig]
  /\ lastEvent = [r \in Replicas |-> "none"]
  /\ listeners = <<>>
  /\ seen = [l \in ListenerIds |-> NotInvoked]
  /\ nPub = 0
  /\ authed = [r \in Replicas |-> TRUE]
  /\ codec = NoCodec

NextMeta ==
  \/ MDetect
  \/ MMerge

SpecMeta == InitMeta /\ [][NextMeta]_vars

(***************************************************************************)
(* Properties                                                              *)
(***************************************************************************)
\* the entries a store holds for an id (none, or one)
EntriesOf(ts, id) == {ts[i] : i \in {j \in DOMAIN ts : ts[j].id = id}}

\* the todo list a snapshot stands for: its records without updatedAt
TodosOf(data) == [i \in DOMAIN data.habits |-> Todo(data.habits[i])]

\* C1: a UI mutation of the local store made after sync() read the store and
\* before it writes the merged snapshot back survives the write-back: for
\* every id the UI changed in between, the store holds after the write-back
\* what it held before it.
C1_MutationSurvivesWriteBack ==
  [][\A r \in Replicas : \A c \in Slots :
       (cyc[r][c].pc = "fetch" /\ cyc'[r][c].pc = "getsha")
         => \A id \in cyc[r][c].mutated :
              EntriesOf(todos'[r], id) = EntriesOf(todos[r], id)]_vars

\* C2: at most one invocation of sync() is in flight per process at any time.
C2_SingleFlight ==
  \A r \in Replicas : Cardinality({c \in Slots : InFlight(r, c)}) <= 1

\* C3: the remote write of a cycle is accepted only if no other replica has
\* changed the remote object since that cycle fetched it.
C3_WriteConditionedOnFetchToken ==
  [][\A r \in Replicas : \A c \in Slots :
       (cyc[r][c].pc = "put" /\ cyc'[r][c].pc = "written") => ~cyc[r][c].stale]_vars

\* C4: an invocation whose remote write is rejected because another replica
\* changed the remote object since the fetch ends in error only after
\* retryAttempts attempts, and then with a SyncError of type 'storage'.
C4_RetryThenStorageError ==
  \A r \in Replicas : \A c \in Slots :
    (cyc[r][c].pc = "done" /\ cyc[r][c].outcome = "error" /\ cyc[r][c].stale)
      => (cyc[r][c].attempts = retryAttempts /\ cyc[r][c].errType = "storage")

\* C5 (as stated): at the moment a cycle reports success, the local store and
\* the remote object hold the same snapshot.
C5_LocalEqualsRemoteAtSuccess ==
  [][\A r \in Replicas : \A c \in Slots :
       (cyc[r][c].pc = "written" /\ cyc'[r][c].pc = "done")
         => (remote'.exists /\ todos'[r] = TodosOf(remote'.data))]_vars

\* C5 (amended): a cycle that reports success has written the local store and
\* the remote object, both with its merged snapshot (the local store holds
\* the records without updatedAt).
C5_SuccessWroteSameSnapshot ==
  \A r \in Replicas : \A c \in Slots :
    cyc[r][c].outcome = "success"
      => /\ cyc[r][c].wroteLocal
         /\ cyc[r][c].attempts >= 1
         /\ cyc[r][c].localWritten = TodosOf(cyc[r][c].remoteWritten)
         /\ cyc[r][c].remoteWritten = cyc[r][c].merged

\* a cycle has reported success although the local store no longer equals
\* the remote object: the UI changed the store after the write-back
C5_Witness ==
  \E r \in Replicas : \E c \in Slots :
    /\ cyc[r][c].outcome = "success"
    /\ Len(cyc[r][c].localWritten) >= 1
    /\ syncState[r].status = "success"
    /\ todos[r] # TodosOf(remote.data)

\* the ids the conflict rule covers: in both snapshots, with different text, or
\* with different completed flags less than the window apart
ConflictingIds(local, rem) ==
  {id \in IdsOf(local.habits) \cap IdsOf(rem.habits) :
     LET l == MapGet(local.habits, id)
         r == MapGet(rem.habits, id)
     IN \/ l.text # r.text
        \/ /\ l.completed # r.completed
           /\ Abs(EffTime(l) - EffTime(r)) < ConflictWindow}

\* C6: when the snapshots a cycle compares hold a conflict, the cycle writes
\* neither the local store nor the remote object, ends with status 'conflict',
\* conflictCount is the number of conflicting ids and each is reported once.
C6_ConflictStopsWithoutWrite ==
  [][\A r \in Replicas : \A c \in Slots :
       LET ids == ConflictingIds(cyc[r][c].localData, readHabitsData(remote, now))
       IN (cyc[r][c].pc = "fetch" /\ cyc'[r][c].pc # "fetch" /\ ids # {})
            => /\ todos' = todos
               /\ remote' = remote
               /\ cyc'[r][c].pc = "done"
               /\ cyc'[r][c].outcome = "conflict"
               /\ ~cyc'[r][c].wroteLocal
               /\ cyc'[r][c].attempts = 0
               /\ syncState'[r].status = "conflict"
               /\ syncState'[r].conflictCount = Cardinality(ids)
               /\ Len(cyc'[r][c].conflicts) = Cardinality(ids)
               /\ {cyc'[r][c].conflicts[i].id : i \in DOMAIN cyc'[r][c].conflicts} = ids]_vars

\* local text "a" against remote text "b" for id 1: one conflict, reported
\* for id 1, status 'conflict', nothing written
C6_Witness ==
  \E r \in Replicas : \E c \in Slots :
    /\ cyc[r][c].outcome = "conflict"
    /\ Len(cyc[r][c].conflicts) = 1
    /\ cyc[r][c].conflicts[1].local.text = "a"
    /\ cyc[r][c].conflicts[1].remote.text = "b"
    /\ syncState[r].status = "conflict"
    /\ syncState[r].conflictCount = 1
    /\ remote.data.habits[1].text = "b"
    /\ todos[r][1].text = "a"

\* SpecMerge: the ids in exactly one of the two snapshots
OneSided(id) == (id \in IdsOf(mLocal.habits)) # (id \in IdsOf(mRemote.habits))
SourceRecord(id) ==
  IF id \in IdsOf(mLocal.habits) THEN MapGet(mLocal.habits, id) ELSE MapGet(mRemote.habits, id)

\* C7: a record whose id is in exactly one of the two snapshots and has no
\* tombstone is in the merged result, once and unchanged.
C7_MergeKeepsOneSided ==
  mOut.kind = "merge"
    => \A id \in Ids :
         (OneSided(id) /\ id \notin TombIds(mOut.tombs))
           => /\ Cardinality({i \in DOMAIN mOut.data.habits : mOut.data.habits[i].id = id}) = 1
              /\ MapGet(mOut.data.habits, id) = SourceRecord(id)

\* a remote-only record not newer than the local lastSync is kept while a
\* tombstone for another id exists
C7_Witness ==
  /\ mOut.kind = "merge"
  /\ 1 \notin IdsOf(mLocal.habits)
  /\ 1 \in IdsOf(mRemote.habits)
  /\ EffTime(MapGet(mRemote.habits, 1)) < mLocal.lastSync
  /\ TombIds(mOut.tombs) = {2}
  /\ 1 \in IdsOf(mOut.data.habits)

\* a tombstone for id that is younger than the retention window at time t
Unexpired(ds, id, t) ==
  \E i \in DOMAIN ds : ds[i].id = id /\ ds[i].deletedAt > t - RetentionWindow

\* C8: an id with an unexpired tombstone is absent from the result of a merge,
\* whichever side still holds its record.
C8_TombstoneSuppresses ==
  mOut.kind = "merge"
    => \A id \in Ids : Unexpired(mOut.tombs, id, now) => id \notin IdsOf(mOut.data.habits)

\* id 1 deleted at time 1, still on both sides, the remote record last
\* updated before the deletion: absent from the merge
C8_Witness ==
  /\ mOut.kind = "merge"
  /\ Unexpired(mOut.tombs, 1, now)
  /\ 1 \in IdsOf(mLocal.habits)
  /\ 1 \in IdsOf(mRemote.habits)
  /\ EffTime(MapGet(mRemote.habits, 1)) < TombFind(mOut.tombs, 1).deletedAt
  /\ 1 \notin IdsOf(mOut.data.habits)
  /\ 2 \in IdsOf(mOut.data.habits)

\* C9: once A has deleted an id and a sync of A started after the deletion
\* has succeeded, the id is never again in A's local store nor in a snapshot
\* A writes to the remote object.
C9_NoResurrection ==
  [][stage' >= 2
       => /\ delId' \notin IdsOf(todos'["A"])
          /\ \A c \in Slots :
               (cyc["A"][c].pc = "put" /\ cyc'["A"][c].pc = "written")
                 => delId' \notin IdsOf(remote'.data.habits)]_vars

\* C10: after A deleted an id and synced, B synced, and A synced again, the id
\* is absent from the remote object and from every local store.
C10_DeletionPropagates ==
  stage = 4
    => /\ delId \notin IdsOf(remote.data.habits)
       /\ \A r \in Replicas : delId \notin IdsOf(todos[r])

\* C11: in a merge made after a tombstone has outlived the retention window,
\* a record of its id that is still on either side is in the merged result.
C11_ExpiredTombstoneReleases ==
  mOut.kind = "merge"
    => \A id \in Ids :
         (/\ id \in TombIds(mOut.tombs)
          /\ ~Unexpired(mOut.tombs, id, now)
          /\ id \in IdsOf(mLocal.habits) \cup IdsOf(mRemote.habits))
           => id \in IdsOf(mOut.data.habits)

\* no id has two entries in a tombstone list
NoDupIds(ds) == \A i, j \in DOMAIN ds : ds[i].id = ds[j].id => i = j

ConflictIdsOf(cs) == {cs[i].id : i \in DOMAIN cs}

\* C13: detectConflicts reports an id of both snapshots exactly when the texts
\* differ, or the completed flags differ and the update times are less than
\* the window apart; each such id is reported once.
C13_ConflictIffRule ==
  mOut.kind = "detect"
    => /\ ConflictIdsOf(mOut.conflicts) = ConflictingIds(mLocal, mRemote)
       /\ Len(mOut.conflicts) = Cardinality(ConflictingIds(mLocal, mRemote))
       /\ \A id \in IdsOf(mLocal.habits) \cap IdsOf(mRemote.habits) :
            LET l == MapGet(mLocal.habits, id)
                r == MapGet(mRemote.habits, id)
            IN hasConflict(l, r)
                 <=> \/ l.text # r.text
                     \/ /\ l.completed # r.completed
                        /\ Abs(l.updatedAt - r.updatedAt) < ConflictWindow

\* completed flags differ exactly one window apart and the hidden flags
\* differ too: no conflict
C13_Witness ==
  /\ mOut.kind = "detect"
  /\ 1 \in IdsOf(mLocal.habits) \cap IdsOf(mRemote.habits)
  /\ MapGet(mLocal.habits, 1).text = MapGet(mRemote.habits, 1).text
  /\ MapGet(mLocal.habits, 1).completed # MapGet(mRemote.habits, 1).completed
  /\ MapGet(mLocal.habits, 1).hidden # MapGet(mRemote.habits, 1).hidden
  /\ MapGet(mLocal.habits, 1).updatedAt - MapGet(mRemote.habits, 1).updatedAt = ConflictWindow
  /\ mOut.conflicts = <<>>

\* C14: hasConflict gives the same verdict with its arguments swapped, and
\* detectConflicts names the same ids with its snapshots swapped.
C14_ConflictSymmetric ==
  mOut.kind = "detect"
    => /\ ConflictIdsOf(mOut.conflicts) = ConflictIdsOf(detectConflicts(mRemote, mLocal))
       /\ \A id \in IdsOf(mLocal.habits) \cap IdsOf(mRemote.habits) :
            hasConflict(MapGet(mLocal.habits, id), MapGet(mRemote.habits, id))
              = hasConflict(MapGet(mRemote.habits, id), MapGet(mLocal.habits, id))

\* completed flags differ, the local record two units older than the remote
\* one: no conflict in either direction
C14_Witness ==
  /\ mOut.kind = "detect"
  /\ 1 \in IdsOf(mLocal.habits) \cap IdsOf(mRemote.habits)
  /\ MapGet(mLocal.habits, 1).text = MapGet(mRemote.habits, 1).text
  /\ MapGet(mLocal.habits, 1).completed # MapGet(mRemote.habits, 1).completed
  /\ MapGet(mRemote.habits, 1).updatedAt - MapGet(mLocal.habits, 1).updatedAt = 2
  /\ mOut.conflicts = <<>>
  /\ detectConflicts(mRemote, mLocal) = <<>>

\* C15: for an id of both snapshots, not conflicting and without tombstone,
\* the merge holds once the record with the greater update time, the local
\* one when the times are equal.
C15_NewestWinsTieLocal ==
  mOut.kind = "merge"
    => \A id \in (IdsOf(mLocal.habits) \cap IdsOf(mRemote.habits)) :
         (id \notin ConflictingIds(mLocal, mRemote) /\ id \notin TombIds(mOut.tombs))
           => LET l == MapGet(mLocal.habits, id)
                  r == MapGet(mRemote.habits, id)
              IN /\ Cardinality({i \in DOMAIN mOut.data.habits :
                                   mOut.data.habits[i].id = id}) = 1
                 /\ MapGet(mOut.data.habits, id)
                      = IF l.updatedAt > r.updatedAt THEN l
                        ELSE IF r.updatedAt > l.updatedAt THEN r
                        ELSE l

\* equal update times, the records differ in hidden: the local one is kept
C15_Witness ==
  /\ mOut.kind = "merge"
  /\ 1 \in IdsOf(mLocal.habits) \cap IdsOf(mRemote.habits)
  /\ 1 \notin TombIds(mOut.tombs)
  /\ MapGet(mLocal.habits, 1).updatedAt = MapGet(mRemote.habits, 1).updatedAt
  /\ MapGet(mLocal.habits, 1).hidden
  /\ ~MapGet(mRemote.habits, 1).hidden
  /\ MapGet(mOut.data.habits, 1) = MapGet(mLocal.habits, 1)

\* the records of a list
RecordSet(hs) == {hs[i] : i \in DOMAIN hs}

\* C16 (as stated): a snapshot compared with itself has no conflict, and
\* merged with itself gives exactly its records, its version, lastResetDate
\* and settings.
C16_SelfMergeIdentity ==
  mOut.kind = "self"
    => /\ mOut.conflicts = <<>>
       /\ RecordSet(mOut.data.habits) = RecordSet(mLocal.habits)
       /\ Len(mOut.data.habits) = Len(mLocal.habits)
       /\ mOut.data.version = mLocal.version
       /\ mOut.data.lastResetDate = mLocal.lastResetDate
       /\ mOut.data.settings = mLocal.settings

\* C16 (amended): a snapshot compared with itself has no conflict, and merged
\* with itself gives exactly its records whose id has no tombstone, with its
\* version, lastResetDate and settings.
C16_SelfMergeIdentityUntombstoned ==
  mOut.kind = "self"
    => /\ mOut.conflicts = <<>>
       /\ RecordSet(mOut.data.habits)
            = {h \in RecordSet(mLocal.habits) : h.id \notin TombIds(mOut.tombs)}
       /\ Len(mOut.data.habits) = Cardinality(RecordSet(mOut.data.habits))
       /\ mOut.data.version = mLocal.version
       /\ mOut.data.lastResetDate = mLocal.lastResetDate
       /\ mOut.data.settings = mLocal.settings

\* a snapshot of two records merged with itself while id 2 has a tombstone:
\* record 1 alone is left, lastSync is stamped anew
C16_Witness ==
  /\ mOut.kind = "self"
  /\ Len(mLocal.habits) = 2
  /\ TombIds(mOut.tombs) = {2}
  /\ mOut.data.habits = <<mLocal.habits[1]>>
  /\ mOut.data.lastSync = now
  /\ mLocal.lastSync < now

\* C17: resolveConflicts called with lists of different lengths reads and
\* writes nothing and leaves the sync state as it is; an invocation that goes
\* on to read has lists of equal length.
C17_MismatchHasNoEffect ==
  [][\A r \in Replicas :
       /\ (lastEvent'[r] = "mismatch" /\ lastEvent[r] # "mismatch")
            => /\ todos' = todos /\ remote' = remote /\ deleted' = deleted
               /\ syncState' = syncState
               /\ cyc' = cyc
       /\ \A c \in Slots :
            (cyc'[r][c].pc = "rfetch" /\ cyc[r][c].pc # "rfetch")
              => Len(cyc'[r][c].conflicts) = Len(cyc'[r][c].resolutions)]_vars

\* two conflicts reported, resolveConflicts refused, status still 'conflict'
C17_Witness ==
  /\ lastEvent["A"] = "mismatch"
  /\ cyc["A"][1].outcome = "conflict"
  /\ Len(cyc["A"][1].conflicts) = 2
  /\ syncState["A"].status = "conflict"
  /\ syncState["A"].conflictCount = 2
  /\ syncState["A"].lastSyncTime = NoTime

\* the invocations of resolveConflicts that have built their snapshot
Resolved(r, c) ==
  \/ cyc[r][c].pc \in {"rgetsha", "rput", "rwritten"}
  \/ cyc[r][c].pc = "done" /\ cyc[r][c].outcome = "resolved"

\* what resolution 'merge' leaves for two records: the flags of the newer
\* one, its text unless empty, the update time stamped anew
MergedFrom(o, newer, older, t) ==
  /\ o.id = newer.id
  /\ o.completed = newer.completed
  /\ o.hidden = newer.hidden
  /\ o.text = (IF newer.text # "" THEN newer.text ELSE older.text)
  /\ o.updatedAt = t

\* C18: in the snapshot resolveConflicts builds, the record of each conflict
\* is the local record (local), the remote record of the conflict or none
\* when that is null (remote), the newer of the two with the non-empty text
\* and a new update time (merge); the other records are those of the local
\* snapshot.
C18_ResolutionsApplied ==
  \A r \in Replicas : \A c \in Slots :
    Resolved(r, c)
      => LET L == cyc[r][c].localData
             out == cyc[r][c].merged
             cs == cyc[r][c].conflicts
             rs == cyc[r][c].resolutions
         IN /\ \A i \in DOMAIN cs :
                 LET id == cs[i].id
                     l == cs[i].local
                     rm == cs[i].remote
                 IN /\ rs[i] = "local"
                         => EntriesOf(out.habits, id) = EntriesOf(L.habits, id)
                    /\ rs[i] = "remote"
                         => IF rm # NoHabit
                            THEN EntriesOf(out.habits, id) = {rm}
                            ELSE id \notin IdsOf(out.habits)
                    /\ (rs[i] = "merge" /\ l # NoHabit /\ rm # NoHabit)
                         => /\ Cardinality(EntriesOf(out.habits, id)) = 1
                            /\ LET o == MapGet(out.habits, id)
                               IN IF l.updatedAt > rm.updatedAt
                                  THEN MergedFrom(o, l, rm, out.lastSync)
                                  ELSE IF rm.updatedAt > l.updatedAt
                                       THEN MergedFrom(o, rm, l, out.lastSync)
                                       ELSE \/ MergedFrom(o, l, rm, out.lastSync)
                                            \/ MergedFrom(o, rm, l, out.lastSync)
            /\ \A id \in Ids :
                 id \notin ConflictIdsOf(cs)
                   => EntriesOf(out.habits, id) = EntriesOf(L.habits, id)

\* conflict 1 merged, the newer remote record having an empty text; conflict
\* 2 resolved to the remote record: text "a" with the remote flags for id 1,
\* the remote record for id 2
C18_Witness ==
  /\ cyc["A"][1].outcome = "resolved"
  /\ cyc["A"][1].resolutions = <<"merge", "remote">>
  /\ cyc["A"][1].conflicts[1].remote.text = ""
  /\ cyc["A"][1].conflicts[1].remote.completed
  /\ cyc["A"][1].conflicts[1].remote.updatedAt > cyc["A"][1].conflicts[1].local.updatedAt
  /\ MapGet(cyc["A"][1].merged.habits, 1).text = "a"
  /\ MapGet(cyc["A"][1].merged.habits, 1).completed
  /\ MapGet(cyc["A"][1].merged.habits, 1).updatedAt = now
  /\ MapGet(cyc["A"][1].merged.habits, 2) = cyc["A"][1].conflicts[2].remote
  /\ syncState["A"].status = "success"

C22_MutationArmsTimer ==
  \A r \in {"A"} :
    (/\ syncState[r].pendingChanges
     /\ isOnline[r]
     /\ \A c \in Slots : SlotFree(r, c))
      => config[r].autoSync

\* the statuses a cycle ends in, and 'offline'
TerminalStatuses == {"success", "error", "conflict", "offline"}

C24_HalfAppliedIsSurfaced ==
  [][\A r \in Replicas : \A c \in Slots :
       (/\ InFlight(r, c)
        /\ cyc'[r][c].pc = "done"
        /\ cyc'[r][c].wroteLocal # (cyc'[r][c].remoteWritten # EmptyData))
         => /\ syncState'[r].status = "error"
            /\ syncState'[r].lastError # "null"]_vars

\* C25: only the absence of the remote object stands for an empty remote
\* snapshot: while the remote object exists, a cycle goes on from its fetch
\* to the merge and the writes only with the object it has fetched; a fetch
\* that fails ends the cycle with an error.
C25_FetchFailureSurfaces ==
  [][\A r \in Replicas : \A c \in Slots :
       (/\ cyc[r][c].pc = "fetch"
        /\ cyc'[r][c].pc = "getsha"
        /\ remote.exists)
         => cyc'[r][c].fetched = remote]_vars

C27_RoundTrip ==
  codec.stage = "decoded" => codec.decoded = codec.text

\* a text without unpaired surrogates
WellFormed(text) ==
  \A i \in DOMAIN text :
    /\ IsHighSurrogate(text[i]) => (i < Len(text) /\ IsLowSurrogate(text[i + 1]))
    /\ IsLowSurrogate(text[i]) => (i > 1 /\ IsHighSurrogate(text[i - 1]))

\* C27 as the code has it: for either codec, a text without unpaired
\* surrogates comes back as it was, except that U+FEFF at its start is left
\* out.
C27_RoundTripWellFormed ==
  (codec.stage = "decoded" /\ WellFormed(codec.text))
    => IF codec.text # <<>> /\ codec.text[1] = ByteOrderMark
       THEN codec.decoded = Tail(codec.text)
       ELSE codec.decoded = codec.text

\* a CJK character followed by an emoji has gone through the client codec
C27_Witness ==
  /\ codec.which = "client"
  /\ codec.stage = "decoded"
  /\ codec.text = <<27979, 55356, 57263>>
  /\ Len(codec.base64) = 12
  /\ codec.decoded = codec.text

\* C28: the expiry sweep of a merge pass is complete before the first
\* tombstone lookup of the pass: the list the lookups read is the swept one,
\* holding unexpired tombstones only, and it is what the pass leaves behind.
C28_SweepBeforeLookups ==
  mOut.kind \in {"merge", "self"}
    => /\ mOut.tombs = cleanupDeletedIds(mOut.tombs, now)
       /\ deleted["A"] = mOut.tombs

\* C29: the records of a merged snapshot are in ascending order of createdAt
\* and no id occurs twice among them, whatever the order of the records of
\* the two inputs.
C29_MergedSortedUnique ==
  mOut.kind \in {"merge", "self"}
    => LET hs == mOut.data.habits
       IN /\ \A i, j \in DOMAIN hs : i < j => hs[i].createdAt <= hs[j].createdAt
          /\ \A i, j \in DOMAIN hs : hs[i].id = hs[j].id => i = j

\* the local input holds id 2 before id 1 and in descending order of
\* createdAt, the remote input holds id 1 twice; both ids are in the result
C29_Witness ==
  /\ mOut.kind = "merge"
  /\ Len(mLocal.habits) = 2
  /\ mLocal.habits[1].id = 2 /\ mLocal.habits[2].id = 1
  /\ mLocal.habits[1].createdAt > mLocal.habits[2].createdAt
  /\ Len(mRemote.habits) = 2
  /\ mRemote.habits[1].id = 1 /\ mRemote.habits[2].id = 1
  /\ Len(mOut.data.habits) = 2
  /\ mOut.data.habits[1].id = 1

\* { ...under, ...over }: the keys of both, the value of over where it has
\* the key
Overlay(under, over) ==
  [k \in DOMAIN under \cup DOMAIN over |-> IF k \in DOMAIN over THEN over[k] ELSE under[k]]

\* C30: in a merged snapshot version and lastResetDate are those of the side
\* with the newer lastSync, and the settings are the remote settings overlaid
\* with the local ones, whichever side is newer.
C30_MetaNewerSettingsOverlaid ==
  mOut.kind = "merge"
    => LET newerMeta == IF mLocal.lastSync >= mRemote.lastSync THEN mLocal ELSE mRemote
       IN /\ mOut.data.version = newerMeta.version
          /\ mOut.data.lastResetDate = newerMeta.lastResetDate
          /\ mOut.data.settings = Overlay(mRemote.settings, mLocal.settings)

\* C19: the 'offline' event sets status 'offline' and leaves every invocation
\* in flight as it is; while the network is down no invocation is started,
\* and a trigger that finds it down touches neither the stores nor the state.
C19_OfflineSuppressesCycles ==
  [][\A r \in Replicas :
       /\ (isOnline[r] /\ ~isOnline'[r])
            => /\ syncState'[r].status = "offline"
               /\ cyc' = cyc
               /\ todos' = todos /\ remote' = remote
       /\ (~isOnline[r] /\ ~isOnline'[r])
            => /\ nSync'[r] = nSync[r]
               /\ \A c \in Slots : SlotFree(r, c) => cyc'[r][c] = cyc[r][c]
       /\ (~isOnline[r] /\ lastEvent'[r] \in {"timer", "manual"} /\ lastEvent'[r] # lastEvent[r])
            => /\ cyc' = cyc /\ syncState' = syncState
               /\ todos' = todos /\ remote' = remote]_vars

\* the network is down, the timer has just found it down, the invocation
\* started before the loss is still waiting for its fetch
C19_Witness ==
  /\ ~isOnline["A"]
  /\ lastEvent["A"] = "timer"
  /\ syncState["A"].status = "offline"
  /\ cyc["A"][1].pc = "fetch"
  /\ SlotFree("A", 2)
  /\ nSync["A"] = 1

\* the slots of r that leave the free state in a step
Started(r) == {c \in Slots : SlotFree(r, c) /\ cyc'[r][c].pc = "fetch"}

C31_NoWriteBeforeResolve ==
  [][\A c \in Slots :
       (/\ cyc["A"][c].pc = "done"
        /\ cyc["A"][c].outcome = "conflict"
        /\ cyc'["A"][c] = cyc["A"][c]
        /\ remote' # remote)
         => \E d \in Slots :
              /\ cyc["A"][d].pc = "rput"
              /\ cyc'["A"][d].pc = "rwritten"
              /\ ConflictIdsOf(cyc["A"][d].conflicts) = ConflictIdsOf(cyc["A"][c].conflicts)]_vars

\* C32: the snapshot resolveConflicts builds and saves holds no id with an
\* unexpired tombstone: neither the local store after its saveLocalData nor
\* the remote object after its saveRemoteData holds such an id.
C32_ResolveRespectsTombstones ==
  [][\A c \in Slots : \A id \in Ids :
       Unexpired(deleted["A"], id, now)
         => /\ (cyc["A"][c].pc = "rfetch" /\ cyc'["A"][c].pc = "rgetsha")
                 => /\ id \notin IdsOf(cyc'["A"][c].merged.habits)
                    /\ id \notin IdsOf(todos'["A"])
            /\ (cyc["A"][c].pc = "rput" /\ cyc'["A"][c].pc = "rwritten")
                 => id \notin IdsOf(remote'.data.habits)]_vars

\* C33: an id the remote object held and the local store did not, when
\* resolveConflicts read them, and that has no tombstone, is still in the
\* remote object once resolveConflicts has written it.
C33_ResolveKeepsRemoteOnly ==
  [][\A c \in Slots :
       (cyc["A"][c].pc = "rput" /\ cyc'["A"][c].pc = "rwritten")
         => \A id \in IdsOf(cyc["A"][c].fetched.data.habits) :
              (/\ id \notin IdsOf(cyc["A"][c].localData.habits)
               /\ id \notin TombIds(deleted["A"]))
                => id \in IdsOf(remote'.data.habits)]_vars

SyncingAt == {"fetch", "getsha", "put", "written"}

\* C36: every invocation of sync() that has set status 'syncing' ends, and
\* at its end the status is 'success', 'error' or 'conflict' as it ended;
\* the status does not stay 'syncing' for ever, whatever network events and
\* triggers arrive meanwhile.
C36_CycleEndsWithStatus ==
  /\ \A c \in Slots :
       (cyc["A"][c].pc \in SyncingAt)
         ~> (/\ cyc["A"][c].pc = "done"
             /\ cyc["A"][c].outcome \in {"success", "error", "conflict"}
             /\ syncState["A"].status = cyc["A"][c].outcome)
  /\ (syncState["A"].status = "syncing") ~> (syncState["A"].status # "syncing")

\* the network was lost during a cycle, which ended with 'error' while a
\* second invocation had been started meanwhile and has ended too
C36_Witness ==
  /\ ~isOnline["A"]
  /\ nSync["A"] = 2
  /\ \A c \in Slots : cyc["A"][c].pc = "done"
  /\ \E c \in Slots : cyc["A"][c].outcome = "error"
  /\ syncState["A"].status = "error"

C35_GuardedCallLeavesNoTrace ==
  /\ [](\A r \in {"A"} :
          (~authed[r] \/ ~isOnline[r])
            => /\ ~ENABLED manualSyncCall(r, Slots)
               /\ ENABLED syncRejected(r))
  /\ [][\A r \in {"A"} :
          (lastEvent'[r] \in {"auth", "network"} /\ lastEvent'[r] # lastEvent[r])
            => /\ lastEvent'[r] = "auth" <=> ~authed[r]
               /\ lastEvent'[r] = "network" => ~isOnline[r]
               /\ UNCHANGED <<syncState, seen, listeners, remote, todos, deleted, cyc, nSync>>]_vars

\* after a cycle that ended with 'success' was seen by the subscribed
\* listener, the session ended and sync() was called: the error is of type
\* 'auth', the state and what the listener last saw are those of the success
C35_Witness ==
  /\ ~authed["A"]
  /\ lastEvent["A"] = "auth"
  /\ Len(listeners) >= 1
  /\ syncState["A"].status = "success"
  /\ seen[1].state = syncState["A"]
  /\ nSync["A"] = 1

\* C38: the status is 'offline' only while the network is marked down; after
\* the 'online' event it is no longer 'offline', whether or not the session
\* is authenticated and autoSync is on.
C38_OfflineOnlyWhileDown ==
  \A r \in {"A"} : syncState[r].status = "offline" => ~isOnline[r]

\* the listeners an array of subscriptions holds
Subscribed(ls) == {ls[i] : i \in DOMAIN ls}

\* C39: when listeners call unsubscribe handles, their own or another's,
\* while a state update is being delivered, every listener still subscribed
\* once the delivery is over has been invoked with the new state, and a
\* listener that was not subscribed when the delivery began is not invoked.
C39_UnsubscribeSafeInFanout ==
  [][nPub' = nPub + 1
       => /\ \A l \in Subscribed(listeners') :
               /\ seen'[l].seq = nPub'
               /\ seen'[l].state = syncState'["A"]
          /\ \A l \in ListenerIds \ Subscribed(listeners) : seen'[l] = seen[l]]_vars

=============================================================================
